---------------------------- MODULE Spec2Model ----------------------------
(***************************************************************************)
(* A model of NxLite: the worker's connection loop and per-IP rate         *)
(* limiter (worker.c), the path resolver, response cache and request       *)
(* handler (http.c), the supervisor (master.c, main.c), and one connection *)
(* seen as a byte stream.                                                  *)
(*                                                                         *)
(* Time is counted in whole seconds as time(NULL) does.  The program's     *)
(* time constants, thresholds and table sizes are scaled down; each scaled *)
(* value is a named definition and keeps the order relations of the        *)
(* original values (slow-request threshold < idle timeout, window < ban    *)
(* duration, purge interval < TTL, per-entry cap < global cap).            *)
(***************************************************************************)
EXTENDS Integers, Sequences, FiniteSets, TLC

VARIABLES
    now,               \* time(NULL)
    development_mode,  \* config->development_mode
    rate_limit_table,  \* worker.c: rate_limit_table[RATE_LIMIT_TABLE_SIZE]
    clients,           \* worker->clients[0 .. client_count-1]
    closed,            \* the socket the worker closed last: how, and the
                       \* number of decrement_connection_count calls made
                       \* for it with its peer address
    dispatch,          \* fd of the timer whose event worker_run dispatched
                       \* last; 0 when the last event was of another kind
    attempt,           \* the last call of check_rate_limit observed: the
                       \* address, the value returned, and a bit that
                       \* flips with every call
    open_conns,        \* per address, the connections in the client table
                       \* (where the client records themselves are left out)
    symlinks,          \* the filesystem's symbolic links: path -> target
    root_dir,          \* config->root_dir
    request_path,      \* the request path handed to the resolver
    resolved,          \* validate_and_resolve_path: value returned and
                       \* resolved_path
    response_cache,    \* http.c: response_cache[CACHE_SIZE]
    cache_index,       \* http.c: the write cursor
    cache_stats,       \* http.c: total_memory_used and last_cleanup_time
                       \* (the event counters are left out)
    cache_op,          \* the cache operation in progress: a lookup with its
                       \* outcome, an insert with its arguments, or none
    request,           \* the request text the connection sent last
    response,          \* http_response_t filled by http_handle_request
    reply,             \* what became of the response: "sent", "pending"
                       \* (the send would block), "failed", or "none"
    wire,              \* the parts of the response written to the socket
    consulted,         \* which of the filesystem and the cache the handler
                       \* reached for the request
    origin,            \* the last response sent while its file was stored
                       \* in the cache: the request and the parts written
    master,            \* master.c: the supervisor's position in master_run,
                       \* worker_pids[], its flags, and the processes it forked
    conn               \* one client connection seen as a byte stream: what
                       \* the peer still has to send, client->buffer, the
                       \* pending response, and what the peer received

worker_vars == <<development_mode, rate_limit_table, clients, closed,
                 dispatch, attempt, open_conns>>

path_vars == <<symlinks, root_dir, request_path, resolved>>

cache_vars == <<response_cache, cache_index, cache_stats, cache_op>>

http_vars == <<request, response, reply, wire, consulted, origin>>

proc_vars == <<master, conn>>

vars == <<now, worker_vars, path_vars, cache_vars, http_vars, proc_vars>>

\* The supervisor and the byte-stream connection where they are not modelled.
NoMaster == [pc |-> "off"]

NoConn == [state |-> "off"]

ProcIdle ==
    /\ master = NoMaster
    /\ conn = NoConn

(***************************************************************************)
(* Bounds of the model.                                                    *)
(***************************************************************************)
EPOCH == 100          \* time(NULL) when the worker starts
Horizon == 2          \* seconds of behaviour of the worker explored
RateHorizon == 9      \* seconds of behaviour of the rate limiter explored
AttemptsPastBan == 1  \* attempts counted in one window beyond those that
                      \* bring the ban
MaxBytes == 4         \* bytes one connection sends in one behaviour
MaxPathLen == 4       \* characters of a request path
CacheHorizon == 3     \* seconds of behaviour of the cache explored
MaxBlobLen == 3       \* bytes of a response handed to the cache

MaxOpen == 5          \* connections one address holds open at a time
MaxTime == EPOCH + Horizon
RateMaxTime == EPOCH + RateHorizon

(***************************************************************************)
(* Program constants (worker.h), scaled.                                   *)
(***************************************************************************)
RATE_LIMIT_TABLE_SIZE == 2                \* 4096
RATE_LIMIT_WINDOW == 2                    \* 60 s
RATE_LIMIT_MAX_REQUESTS == 2              \* 100
MAX_VIOLATIONS_BEFORE_BAN == 2            \* 5
BAN_DURATION == 5                         \* 600 s, above two windows
MAX_CONCURRENT_CONNECTIONS_PER_IP == 3
MAX_CONNECTIONS == 2                      \* per-worker client table size
KEEP_ALIVE_TIMEOUT == 2                   \* 60 s
SLOW_LORIS_TIMEOUT == 1                   \* 10 s
SLOW_READ_BYTES == 3                      \* worker.c:607, 100 bytes
SLOW_READ_SECONDS == 1                    \* worker.c:609, 5 s
EMERGENCY_IDLE == 1                       \* worker.c:881, 5 s
EMERGENCY_MAX_CLOSE == 1                  \* worker.c:880, 10 connections
REQ_LEN == 4                              \* shortest block ending in CRLFCRLF

\* unsigned int arithmetic wraps at 2^32; the model wraps at 2^24, which
\* gives the same slot for every string of up to two characters and, for
\* longer ones, whenever the table size is a power of two.
UINT_MOD == 16777216

\* Attempts are explored until the window's count has passed the threshold
\* by the number of violations that bring the ban, and a little further.
MaxCount ==
    RATE_LIMIT_MAX_REQUESTS + MAX_VIOLATIONS_BEFORE_BAN + AttemptsPastBan

(***************************************************************************)
(* Peer addresses: strings as sequences of character codes.  "1" and "3"   *)
(* hash to the same slot of a two-slot table.                              *)
(***************************************************************************)
IP1 == <<49>>
IP3 == <<51>>
ClientIPs == {IP1, IP3}
WorkerIPs == {IP1}
UNKNOWN_IP == <<117>>        \* strcpy(client_ip, "unknown")
NO_IP == <<>>                \* ip[0] == '\0'

RECURSIVE djb2(_, _)
djb2(h, s) ==
    IF s = <<>> THEN h
    ELSE djb2((((h * 32) % UINT_MOD) + h + Head(s)) % UINT_MOD, Tail(s))

hash_ip(ip) == djb2(5381, ip) % RATE_LIMIT_TABLE_SIZE

Slots == 0 .. (RATE_LIMIT_TABLE_SIZE - 1)

EmptyEntry ==
    [ip |-> NO_IP, window_start |-> 0, request_count |-> 0,
     last_request |-> 0, connection_count |-> 0, violation_count |-> 0,
     ban_until |-> 0]

(***************************************************************************)
(* check_rate_limit: the table after the call and the value returned.      *)
(***************************************************************************)
\* A variant of RateLimitAfterBanCheck that keeps the violations of an
\* expired ban.
RateLimitKeepViolations(e, t) ==
    IF e.ban_until > 0 /\ t >= e.ban_until
    THEN [e EXCEPT !.ban_until = 0]
    ELSE e

RateLimitAfterBanCheck(e, t) ==
    IF e.ban_until > 0 /\ t >= e.ban_until
    THEN [e EXCEPT !.ban_until = 0, !.violation_count = 0]
    ELSE e

\* A variant of RateLimitCount that denies from the threshold on instead
\* of above it.
RateLimitCountAtThreshold(e, t) ==
    LET e1 == [e EXCEPT !.request_count = e.request_count + 1,
                        !.last_request = t,
                        !.connection_count = e.connection_count + 1]
    IN  IF e1.request_count >= RATE_LIMIT_MAX_REQUESTS
        THEN LET e2 == [e1 EXCEPT !.violation_count = e1.violation_count + 1]
                 e3 == IF e2.violation_count >= MAX_VIOLATIONS_BEFORE_BAN
                       THEN [e2 EXCEPT !.ban_until = t + BAN_DURATION]
                       ELSE e2
             IN  [entry |-> e3, ret |-> 0]
        ELSE [entry |-> e1, ret |-> 1]

RateLimitCount(e, t) ==
    LET e1 == [e EXCEPT !.request_count = e.request_count + 1,
                        !.last_request = t,
                        !.connection_count = e.connection_count + 1]
    IN  IF e1.request_count > RATE_LIMIT_MAX_REQUESTS
        THEN LET e2 == [e1 EXCEPT !.violation_count = e1.violation_count + 1]
                 e3 == IF e2.violation_count >= MAX_VIOLATIONS_BEFORE_BAN
                       THEN [e2 EXCEPT !.ban_until = t + BAN_DURATION]
                       ELSE e2
             IN  [entry |-> e3, ret |-> 0]
        ELSE [entry |-> e1, ret |-> 1]

check_rate_limit(tbl, ip, t, dev) ==
    IF dev THEN [tbl |-> tbl, ret |-> 1]
    ELSE
    LET h  == hash_ip(ip)
        e0 == tbl[h]
    IN  IF e0.ban_until > 0 /\ t < e0.ban_until
        THEN [tbl |-> tbl, ret |-> 0]
        ELSE
        LET e == RateLimitAfterBanCheck(e0, t)
        IN  IF e.ip = NO_IP \/ e.ip # ip
               \/ (t - e.window_start) > RATE_LIMIT_WINDOW * 2
            THEN [tbl |-> [tbl EXCEPT ![h] =
                             [e EXCEPT !.ip = ip, !.window_start = t,
                                       !.request_count = 1,
                                       !.last_request = t,
                                       !.connection_count = 1]],
                  ret |-> 1]
            ELSE IF e.connection_count >= MAX_CONCURRENT_CONNECTIONS_PER_IP
            THEN [tbl |-> [tbl EXCEPT ![h] = e], ret |-> 0]
            ELSE IF (t - e.window_start) >= RATE_LIMIT_WINDOW
            THEN [tbl |-> [tbl EXCEPT ![h] =
                             [e EXCEPT !.window_start = t,
                                       !.request_count = 1,
                                       !.last_request = t,
                                       !.connection_count =
                                           e.connection_count + 1]],
                  ret |-> 1]
            ELSE LET r == RateLimitCount(e, t)
                 IN  [tbl |-> [tbl EXCEPT ![h] = r.entry], ret |-> r.ret]

decrement_connection_count(tbl, ip) ==
    LET h == hash_ip(ip)
        e == tbl[h]
    IN  IF e.ip # NO_IP /\ e.ip = ip /\ e.connection_count > 0
        THEN [tbl EXCEPT ![h].connection_count = e.connection_count - 1]
        ELSE tbl

cleanup_rate_limit_table(tbl, t) ==
    [h \in Slots |->
        IF tbl[h].ip # NO_IP /\ tbl[h].ban_until = 0
           /\ (t - tbl[h].last_request) > RATE_LIMIT_WINDOW * 4
        THEN EmptyEntry
        ELSE tbl[h]]


(***************************************************************************)
(* The client table.  accept4 and timerfd_create return the lowest         *)
(* descriptor that is not open; descriptors are numbered from 1, above the *)
(* worker's own.  At most MAX_CONNECTIONS clients hold a socket and a      *)
(* timer each while one more socket is being set up.                       *)
(***************************************************************************)
FDs == 1 .. (2 * MAX_CONNECTIONS + 2)

UsedFds(cl) ==
    {cl[i].fd : i \in 1 .. Len(cl)} \cup {cl[i].timer_fd : i \in 1 .. Len(cl)}

LowestFree(used) ==
    CHOOSE f \in FDs : f \notin used /\ \A g \in FDs : g < f => g \in used

\* peer is the socket's peer address, which the kernel knows; client_ip
\* is what the worker recorded for it.
NewClient(fd, tfd, peer, ip, t) ==
    [fd |-> fd, timer_fd |-> tfd, peer |-> peer,
     client_ip |-> ip,
     last_activity |-> t, connection_start |-> t, bytes_received |-> 0,
     keep_alive |-> 1, has_pending_response |-> 0,
     events |-> "in",                        \* EPOLLIN|EPOLLET|EPOLLRDHUP
     timer_deadline |-> t + KEEP_ALIVE_TIMEOUT,
     timer_event |-> FALSE]

\* Index of the first entry whose fd is the one looked for, 0 when none.
FindClient(cl, fd) ==
    IF \E i \in 1 .. Len(cl) : cl[i].fd = fd
    THEN CHOOSE i \in 1 .. Len(cl) :
            /\ cl[i].fd = fd
            /\ \A j \in 1 .. (i - 1) : cl[j].fd # fd
    ELSE 0

FindTimer(cl, tfd) ==
    IF \E i \in 1 .. Len(cl) : cl[i].timer_fd = tfd
    THEN CHOOSE i \in 1 .. Len(cl) :
            /\ cl[i].timer_fd = tfd
            /\ \A j \in 1 .. (i - 1) : cl[j].timer_fd # tfd
    ELSE 0

\* clients[i] = clients[client_count - 1]; client_count--
RemoveAt(cl, i) ==
    [j \in 1 .. (Len(cl) - 1) |-> IF j = i THEN cl[Len(cl)] ELSE cl[j]]

\* What worker_remove_client leaves of a connection: its call of
\* decrement_connection_count counts for the connection when it names the
\* connection's peer address.
Removed(c) ==
    [how |-> "removed", releases |-> IF c.client_ip = c.peer THEN 1 ELSE 0]

\* w is the worker's state: [clients, tbl, closed].
worker_remove_client(w, fd) ==
    LET i == FindClient(w.clients, fd)
    IN  IF i = 0 THEN w
        ELSE [clients |-> RemoveAt(w.clients, i),
              tbl |-> decrement_connection_count(w.tbl,
                                                 w.clients[i].client_ip),
              closed |-> Removed(w.clients[i])]

\* worker_handle_timeout: defined by worker.c, called from nowhere.
worker_handle_timeout(w, tfd, t) ==
    LET i == FindTimer(w.clients, tfd)
    IN  IF i = 0 THEN w
        ELSE LET c == w.clients[i]
             IN  IF /\ c.bytes_received > 0
                    /\ c.bytes_received < 4
                    /\ (t - c.connection_start) >= SLOW_LORIS_TIMEOUT
                 THEN worker_remove_client(w, c.fd)
                 ELSE IF t - c.last_activity >= KEEP_ALIVE_TIMEOUT
                 THEN worker_remove_client(w, c.fd)
                 ELSE w

\* worker_handle_connection, after check_rate_limit admitted the socket.
\* setup = "fail" stands for any of the failures of setsockopt,
\* set_nonblocking, epoll_ctl, create_timeout_timer or mempool_alloc: each
\* closes the socket and returns.
worker_handle_connection(w, fd, peer, peer_ok, setup, t) ==
    IF setup = "fail" \/ Len(w.clients) >= MAX_CONNECTIONS
    THEN [w EXCEPT !.closed = [how |-> "setup", releases |-> 0]]
    ELSE [w EXCEPT
            !.clients = Append(w.clients,
                NewClient(fd, LowestFree(UsedFds(w.clients) \cup {fd}), peer,
                          IF peer_ok THEN peer ELSE UNKNOWN_IP, t))]

(***************************************************************************)
(* worker_handle_client_data.  One call reads one chunk: nothing (EAGAIN), *)
(* end of stream or an error, a fragment of n bytes holding no CRLFCRLF,   *)
(* or one complete request.  For a request the outcome of the HTTP layer   *)
(* is part of the input: whether it parses, the response's keep_alive, the *)
(* value of http_send_response (1 sent, 0 would block, -1 failed) and      *)
(* whether epoll_ctl or timerfd_settime succeeds afterwards.               *)
(***************************************************************************)
ChunkSizes == {1, 2}             \* bytes_read == 1, and any other fragment

ReadInputs ==
    {[kind |-> "eagain"], [kind |-> "eof"]}
    \cup {[kind |-> "partial", n |-> k] : k \in ChunkSizes}
    \cup {[kind |-> "request", parse_ok |-> p, keep_alive |-> k,
           send_result |-> s, sys_ok |-> o] :
            p \in BOOLEAN, k \in {0, 1}, s \in {-1, 0, 1}, o \in BOOLEAN}

InputLen(input) ==
    CASE input.kind = "partial" -> input.n
      [] input.kind = "request" -> REQ_LEN
      [] OTHER -> 0

HandleRequest(w, i, input, t) ==
    LET c  == w.clients[i]
        fd == c.fd
    IN  IF ~input.parse_ok
        THEN worker_remove_client(w, fd)          \* 400 sent, then closed
        ELSE
        LET c1 == [c EXCEPT !.keep_alive = input.keep_alive]
            w1 == [w EXCEPT !.clients[i] = c1]
        IN  IF input.send_result = -1
            THEN worker_remove_client(w1, fd)
            ELSE IF input.send_result = 0
            THEN IF ~input.sys_ok
                 THEN worker_remove_client(w1, fd)
                 ELSE [w1 EXCEPT !.clients[i].events = "out",
                                 !.clients[i].has_pending_response = 1]
            ELSE IF c1.keep_alive = 0
            THEN worker_remove_client(w1, fd)
            ELSE IF ~input.sys_ok
            THEN worker_remove_client(w1, fd)
            ELSE [w1 EXCEPT                       \* timerfd_settime
                    !.clients[i].timer_deadline = t + KEEP_ALIVE_TIMEOUT,
                    !.clients[i].timer_event = FALSE]

worker_handle_client_data(w, fd, input, t) ==
    LET i == FindClient(w.clients, fd)
    IN  IF i = 0 THEN w
        ELSE
        LET c  == w.clients[i]
            c1 == [c EXCEPT !.bytes_received = @ + InputLen(input)]
            w1 == [w EXCEPT !.clients[i] = c1]
        IN  CASE input.kind = "eagain" -> w
              [] input.kind = "eof" -> worker_remove_client(w, fd)
              [] input.kind = "partial" ->
                    IF /\ input.n = 1
                       /\ c1.bytes_received > SLOW_READ_BYTES
                       /\ (t - c.connection_start) > SLOW_READ_SECONDS
                    THEN worker_remove_client(w1, fd)
                    ELSE [w1 EXCEPT !.clients[i].last_activity = t]
              [] input.kind = "request" ->
                    HandleRequest([w1 EXCEPT !.clients[i].last_activity = t],
                                  i, input, t)

\* A variant of worker_handle_client_write that turns back to reading
\* after the pending response has been sent, whatever keep_alive says.
ClientWriteKeepsOpen(w, fd, send_result, mod_ok, t) ==
    LET i == FindClient(w.clients, fd)
    IN  IF i = 0 THEN w
        ELSE
        LET w1 == [w EXCEPT !.clients[i].last_activity = t]
            c  == w1.clients[i]
            rearm == IF ~mod_ok THEN worker_remove_client(w1, fd)
                     ELSE [w1 EXCEPT !.clients[i].events = "in",
                                     !.clients[i].has_pending_response = 0]
        IN  IF c.has_pending_response = 1
            THEN IF send_result = -1 THEN worker_remove_client(w1, fd)
                 ELSE IF send_result = 0 THEN w1
                 ELSE rearm
            ELSE rearm

worker_handle_client_write(w, fd, send_result, mod_ok, t) ==
    LET i == FindClient(w.clients, fd)
    IN  IF i = 0 THEN w
        ELSE
        LET w1 == [w EXCEPT !.clients[i].last_activity = t]
            c  == w1.clients[i]
            rearm == IF ~mod_ok THEN worker_remove_client(w1, fd)
                     ELSE [w1 EXCEPT !.clients[i].events = "in",
                                     !.clients[i].has_pending_response = 0]
        IN  IF c.has_pending_response = 1
            THEN IF send_result = -1 THEN worker_remove_client(w1, fd)
                 ELSE IF send_result = 0 THEN w1
                 ELSE IF c.keep_alive = 0 THEN worker_remove_client(w1, fd)
                 ELSE rearm
            ELSE rearm

\* worker_run, accept failing with EMFILE or ENFILE: the sweep over the
\* table from index j on, n connections closed so far.
RECURSIVE EmergencyClose(_, _, _, _)
EmergencyClose(w, j, n, t) ==
    IF j > Len(w.clients) \/ n >= EMERGENCY_MAX_CLOSE THEN w
    ELSE IF t - w.clients[j].last_activity > EMERGENCY_IDLE
    THEN EmergencyClose(worker_remove_client(w, w.clients[j].fd),
                        j + 1, n + 1, t)
    ELSE EmergencyClose(w, j + 1, n, t)

(***************************************************************************)
(* Paths are sequences of one-character strings.  The filesystem holds the *)
(* document root /w, a sibling /wx whose name begins with the root's, a    *)
(* directory /e outside the root, and two symbolic links: /r, which points *)
(* to the root, and /w/l, whose target varies.                             *)
(***************************************************************************)
PATH_MAX == 8                                 \* limits.h: 4096

NullPath == <<"NULL">>                        \* realpath returned NULL

P_w == <<"/", "w">>
P_w_a == <<"/", "w", "/", "a">>
P_w_d == <<"/", "w", "/", "d">>
P_w_d_a == <<"/", "w", "/", "d", "/", "a">>
P_w_l == <<"/", "w", "/", "l">>
P_wx == <<"/", "w", "x">>
P_wx_a == <<"/", "w", "x", "/", "a">>
P_e == <<"/", "e">>
P_e_a == <<"/", "e", "/", "a">>
P_e_n == <<"/", "e", "/", "n">>
P_r == <<"/", "r">>
P_w_i == <<"/", "w", "/", "i", ".", "t">>       \* the index page, /w/i.t
P_w_p == <<"/", "w", "/", "p", ".", "g">>       \* a picture, /w/p.g

Dirs == {<<>>, P_w, P_w_d, P_wx, P_e}         \* <<>> is the directory /
Files == {P_w_a, P_w_d_a, P_wx_a, P_e_a, P_w_i, P_w_p}
LinkTargets == {NullPath, P_e, P_e_a, P_e_n, P_wx, P_w_d, P_w_l}
PathChars == {"/", "a", "d", "l", "x", "n", "."}
MAXSYMLINKS == 2                              \* ELOOP after this many links

IndexOf(s, c) ==
    IF \E i \in 1 .. Len(s) : s[i] = c
    THEN CHOOSE i \in 1 .. Len(s) : s[i] = c /\ \A j \in 1 .. (i - 1) : s[j] # c
    ELSE 0

\* strrchr
LastIndexOf(s, c) ==
    IF \E i \in 1 .. Len(s) : s[i] = c
    THEN CHOOSE i \in 1 .. Len(s) :
            s[i] = c /\ \A j \in (i + 1) .. Len(s) : s[j] # c
    ELSE 0

\* A variant of StrStr that finds sub only where s begins.
StrStrAtStart(s, sub) ==
    \E i \in 1 .. (IF Len(s) >= Len(sub) THEN 1 ELSE 0) :
        SubSeq(s, i, i + Len(sub) - 1) = sub

\* strstr(s, sub) != NULL
StrStr(s, sub) ==
    \E i \in 1 .. (Len(s) - Len(sub) + 1) :
        SubSeq(s, i, i + Len(sub) - 1) = sub

\* The components of a path; an empty component stands where two
\* separators meet and at either end.
RECURSIVE Split(_)
Split(s) ==
    LET i == IndexOf(s, "/")
    IN  IF i = 0 THEN <<s>>
        ELSE <<SubSeq(s, 1, i - 1)>> \o Split(SubSeq(s, i + 1, Len(s)))

Parent(p) == SubSeq(p, 1, LastIndexOf(p, "/") - 1)

\* realpath: walk the components from /, following symbolic links; NullPath
\* for ENOENT, ENOTDIR and ELOOP.
RECURSIVE Walk(_, _, _, _)
Walk(links, cur, rest, depth) ==
    IF rest = <<>> THEN (IF cur = <<>> THEN <<"/">> ELSE cur)
    ELSE
    LET c == Head(rest)
        cand == cur \o <<"/">> \o c
    IN  IF cur \notin Dirs THEN NullPath
        ELSE IF c = <<>> \/ c = <<".">>
        THEN Walk(links, cur, Tail(rest), depth)
        ELSE IF c = <<".", ".">>
        THEN Walk(links, Parent(cur), Tail(rest), depth)
        ELSE IF cand \in DOMAIN links /\ links[cand] # NullPath
        THEN IF depth >= MAXSYMLINKS THEN NullPath
             ELSE Walk(links, <<>>, Split(links[cand]) \o Tail(rest),
                       depth + 1)
        ELSE IF cand \in Dirs \cup Files
        THEN Walk(links, cand, Tail(rest), depth)
        ELSE NullPath

Realpath(links, p) ==
    IF p = <<>> \/ p[1] # "/" THEN NullPath
    ELSE LET r == Walk(links, <<>>, Split(p), 0)
         IN  IF r # NullPath /\ Len(r) >= PATH_MAX THEN NullPath ELSE r

\* A variant of UnderRoot that compares the prefix only.
UnderRootPrefixOnly(path, canonical_root) ==
    /\ Len(path) >= Len(canonical_root)
    /\ SubSeq(path, 1, Len(canonical_root)) = canonical_root

\* strncmp(path, canonical_root, root_len) == 0 &&
\* (path[root_len] == '\0' || path[root_len] == '/')
UnderRoot(path, canonical_root) ==
    /\ Len(path) >= Len(canonical_root)
    /\ SubSeq(path, 1, Len(canonical_root)) = canonical_root
    /\ \/ Len(path) = Len(canonical_root)
       \/ path[Len(canonical_root) + 1] = "/"

Rejected == [ret |-> -1, path |-> <<>>]

\* The branch taken when realpath fails on the whole path: the parent
\* directory is canonicalized and the last component appended.
ResolveParent(links, root, temp_path) ==
    LET i == LastIndexOf(temp_path, "/")
        temp_dir == SubSeq(temp_path, 1, i - 1)
        file == SubSeq(temp_path, i + 1, Len(temp_path))
        canonical_dir == Realpath(links, temp_dir)
        canonical_root == Realpath(links, root)
    IN  IF i = 0
        THEN IF canonical_root = NullPath THEN NullPath ELSE temp_path
        ELSE IF canonical_dir = NullPath THEN NullPath
        ELSE IF canonical_root = NullPath THEN NullPath
        ELSE IF ~UnderRoot(canonical_dir, canonical_root) THEN NullPath
        ELSE IF Len(canonical_dir) + 1 + Len(file) >= PATH_MAX THEN NullPath
        ELSE canonical_dir \o <<"/">> \o file

validate_and_resolve_path(links, root, req, resolved_path_size) ==
    IF StrStr(req, <<".", ".">>) THEN Rejected
    ELSE
    LET temp_path == root \o req
    IN  IF Len(temp_path) >= PATH_MAX THEN Rejected
        ELSE
        LET rp == Realpath(links, temp_path)
            canonical_path == IF rp = NullPath
                              THEN ResolveParent(links, root, temp_path)
                              ELSE rp
            canonical_root == Realpath(links, root)
        IN  IF canonical_path = NullPath THEN Rejected
            ELSE IF canonical_root = NullPath THEN Rejected
            ELSE IF ~UnderRoot(canonical_path, canonical_root) THEN Rejected
            ELSE IF Len(canonical_path) >= resolved_path_size THEN Rejected
            ELSE [ret |-> 0, path |-> canonical_path]

(***************************************************************************)
(* The response cache (http.c).  A cached response is kept as the sequence *)
(* of its parts; its length in bytes is passed and stored beside it, as in *)
(* the code.                                                               *)
(***************************************************************************)
CACHE_SIZE == 2                               \* http.c:38, 10000
CACHE_TIMEOUT == 3                            \* http.c:39, 3600 s
CLEANUP_INTERVAL == 2                         \* http.c:100, 300 s
MAX_CACHE_ENTRY_SIZE == 2                     \* http.c:210, 5 MiB
MAX_TOTAL_CACHE_MEMORY == 3                   \* http.c:218, 100 MiB
VARY_KEY_SIZE == 12                           \* http.c:160, char[256]

NullBlob == <<"NULL">>                        \* response == NULL

CharCode(c) ==
    CASE c = "/" -> 47
      [] c = "." -> 46
      [] c = ":" -> 58
      [] c = "a" -> 97
      [] c = "d" -> 100
      [] c = "e" -> 101
      [] c = "f" -> 102
      [] c = "g" -> 103
      [] c = "i" -> 105
      [] c = "l" -> 108
      [] c = "n" -> 110
      [] c = "o" -> 111
      [] c = "p" -> 112
      [] c = "r" -> 114
      [] c = "t" -> 116
      [] c = "w" -> 119
      [] c = "x" -> 120
      [] c = "z" -> 122

Codes(s) == [i \in 1 .. Len(s) |-> CharCode(s[i])]

hash_key(key) == djb2(5381, Codes(key)) % CACHE_SIZE

CacheSlots == 0 .. (CACHE_SIZE - 1)

EmptyCacheEntry ==
    [path |-> <<>>, response |-> NullBlob, response_len |-> 0,
     timestamp |-> 0, vary_key |-> <<>>, etag |-> <<>>]

\* snprintf(buf, size, "%s", s): at most size - 1 characters are written.
Snprintf(s, size) ==
    SubSeq(s, 1, IF Len(s) < size - 1 THEN Len(s) ELSE size - 1)

GZIP == <<"g", "z", "i", "p">>
DEFLATE == <<"d", "e", "f", "l", "a", "t", "e">>
NONE == <<"n", "o", "n", "e">>

\* The values of Accept-Encoding told apart by strstr: "absent" is a
\* request without the header.
AcceptEncodings == {"absent", "gzip", "deflate", "gzip, deflate", "identity"}
HasGzip(ae) == ae \in {"gzip", "gzip, deflate"}
HasDeflate(ae) == ae \in {"deflate", "gzip, deflate"}

generate_vary_key(path, ae) ==
    LET k0 == Snprintf(path \o <<":">>, VARY_KEY_SIZE)
        enc == IF HasGzip(ae) THEN GZIP
               ELSE IF HasDeflate(ae) THEN DEFLATE
               ELSE NONE
        k1 == IF ae = "absent" THEN k0
              ELSE k0 \o Snprintf(enc, VARY_KEY_SIZE - Len(k0))
    IN  IF /\ \E i \in 1 .. Len(k1) : k1[i] = ":"
           /\ k1[Len(k1)] = ":"
           /\ Len(k1) + 4 < VARY_KEY_SIZE
        THEN k1 \o Snprintf(NONE, VARY_KEY_SIZE - Len(k1))
        ELSE k1

update_cache_stats_on_allocation(stats, size) ==
    [stats EXCEPT !.total_memory_used = @ + size]

update_cache_stats_on_free(stats, size) ==
    [stats EXCEPT !.total_memory_used = IF @ >= size THEN @ - size ELSE 0]

Expired(e, t) == e.path # <<>> /\ t - e.timestamp >= CACHE_TIMEOUT

\* The loop of cleanup_expired_cache_entries from slot i on.
RECURSIVE CleanupFrom(_, _, _)
CleanupFrom(c, i, t) ==
    IF i >= CACHE_SIZE THEN c
    ELSE IF Expired(c.cache[i], t)
    THEN CleanupFrom(
            [c EXCEPT
                !.stats = IF c.cache[i].response # NullBlob
                          THEN update_cache_stats_on_free(
                                   c.stats, c.cache[i].response_len)
                          ELSE c.stats,
                !.cache[i] = EmptyCacheEntry],
            i + 1, t)
    ELSE CleanupFrom(c, i + 1, t)

\* c is the cache: [cache, index, stats].
cleanup_expired_cache_entries(c, t) ==
    IF t - c.stats.last_cleanup_time < CLEANUP_INTERVAL THEN c
    ELSE [CleanupFrom(c, 0, t) EXCEPT !.stats.last_cleanup_time = t]

\* A variant of CacheMatch that does not look at the entry's age.
CacheMatchAnyAge(e, path, key, t) ==
    /\ e.path # <<>>
    /\ e.path = path
    /\ e.vary_key = key

\* The test find_cached_response applies to an entry.
CacheMatch(e, path, key, t) ==
    /\ e.path # <<>>
    /\ e.path = path
    /\ e.vary_key = key
    /\ t - e.timestamp < CACHE_TIMEOUT

\* find_cached_response: the cache after the call and the slot of the entry
\* returned, -1 for NULL.
find_cached_response(c, path, ae, t) ==
    LET key == generate_vary_key(path, ae)
        c1  == cleanup_expired_cache_entries(c, t)
        h   == hash_key(key)
        M(i) == CacheMatch(c1.cache[i], path, key, t)
    IN  [c |-> c1,
         hit |-> IF M(h) THEN h
                 ELSE IF \E i \in CacheSlots \ {h} : M(i)
                 THEN CHOOSE i \in CacheSlots \ {h} :
                         M(i) /\ \A j \in CacheSlots \ {h} : j < i => ~M(j)
                 ELSE -1]

\* A variant of OverTotal that forgets the length of the new response.
OverTotalOldOnly(stats, response_len) ==
    stats.total_memory_used > MAX_TOTAL_CACHE_MEMORY

OverTotal(stats, response_len) ==
    stats.total_memory_used + response_len > MAX_TOTAL_CACHE_MEMORY

\* cache_response, once neither cap forbids the insert.
CacheStore(c, path, key, blob, response_len, etag, malloc_ok, t) ==
    LET h == hash_key(key)
        e == c.cache[h]
        collide == e.path # <<>> /\ (e.path # path \/ e.vary_key # key)
        slot == IF collide THEN c.index ELSE h
        index1 == IF collide THEN (c.index + 1) % CACHE_SIZE ELSE c.index
        old == c.cache[slot]
        stats1 == IF old.response # NullBlob
                  THEN update_cache_stats_on_free(c.stats, old.response_len)
                  ELSE c.stats
    IN  IF malloc_ok
        THEN [cache |-> [c.cache EXCEPT ![slot] =
                            [path |-> path, response |-> blob,
                             response_len |-> response_len, timestamp |-> t,
                             vary_key |-> key, etag |-> etag]],
              index |-> index1,
              stats |-> update_cache_stats_on_allocation(stats1,
                                                         response_len)]
        ELSE [cache |-> [c.cache EXCEPT ![slot] = EmptyCacheEntry],
              index |-> index1, stats |-> stats1]

cache_response(c, path, blob, response_len, ae, etag, malloc_ok, t) ==
    LET key == generate_vary_key(path, ae)
        c1  == IF OverTotal(c.stats, response_len)
               THEN cleanup_expired_cache_entries(c, t)
               ELSE c
    IN  IF response_len > MAX_CACHE_ENTRY_SIZE THEN c
        ELSE IF OverTotal(c1.stats, response_len) THEN c1
        ELSE CacheStore(c1, path, key, blob, response_len, etag, malloc_ok, t)

(***************************************************************************)
(* The worker's actions: one per event worker_run dispatches.              *)
(***************************************************************************)
W == [clients |-> clients, tbl |-> rate_limit_table, closed |-> closed]

SetW(w) ==
    /\ clients' = w.clients
    /\ rate_limit_table' = w.tbl
    /\ closed' = w.closed

\* The worker before its first event, in the given mode.
WorkerStart(dev) ==
    /\ now = EPOCH
    /\ development_mode = dev
    /\ rate_limit_table = [h \in Slots |-> EmptyEntry]
    /\ clients = <<>>
    /\ closed = [how |-> "none", releases |-> 0]
    /\ dispatch = 0
    /\ attempt = [ip |-> NO_IP, ret |-> 1, seq |-> 0, ban_found |-> 0]
    /\ open_conns = [ip \in ClientIPs |-> 0]

\* No path resolved yet, under a filesystem whose link /w/l has the target.
PathStart(root, target) ==
    /\ symlinks = (P_r :> P_w) @@ (P_w_l :> target)
    /\ root_dir = root
    /\ request_path = <<>>
    /\ resolved = [ret |-> 1, path |-> <<>>]

\* The cache of a process that has served nothing yet.
CacheStart ==
    /\ response_cache = [i \in CacheSlots |-> EmptyCacheEntry]
    /\ cache_index = 0
    /\ cache_stats = [total_memory_used |-> 0, last_cleanup_time |-> 0]
    /\ cache_op = [op |-> "none"]

\* No request read yet.
HttpStart ==
    /\ request = [method |-> "none"]
    /\ response = [status_code |-> 0]
    /\ reply = "none"
    /\ wire = <<>>
    /\ consulted = {}
    /\ origin = [request |-> [method |-> "none"], wire |-> <<>>]

InitWorker ==
    /\ \E dev \in BOOLEAN : WorkerStart(dev)
    /\ PathStart(P_w, NullPath)
    /\ CacheStart
    /\ HttpStart
    /\ ProcIdle

\* A variant of AcceptLoop that hands the socket to worker_handle_connection
\* whatever check_rate_limit returned.
AcceptLoopAdmitsAll(ip, peer_ok, setup) ==
    /\ LET fd == LowestFree(UsedFds(clients))
           r  == check_rate_limit(rate_limit_table, ip, now, development_mode)
           w1 == [W EXCEPT !.tbl = r.tbl]
       IN  SetW(worker_handle_connection(w1, fd, ip, peer_ok, setup, now))
    /\ dispatch' = 0
    /\ UNCHANGED <<http_vars, proc_vars>>
    /\ UNCHANGED <<now, development_mode, open_conns, path_vars, cache_vars>>

\* One iteration of the accept loop of worker_run: the accepted socket is
\* closed when check_rate_limit returns 0 and handed to
\* worker_handle_connection otherwise.
AcceptLoop(ip, peer_ok, setup) ==
    /\ LET fd == LowestFree(UsedFds(clients))
           r  == check_rate_limit(rate_limit_table, ip, now, development_mode)
           w1 == [W EXCEPT !.tbl = r.tbl]
       IN  IF r.ret = 0
           THEN SetW([w1 EXCEPT                   \* close(client_fd)
                        !.closed = [how |-> "denied", releases |-> 0]])
           ELSE SetW(worker_handle_connection(w1, fd, ip, peer_ok, setup, now))
    /\ dispatch' = 0
    /\ UNCHANGED <<http_vars, proc_vars>>
    /\ UNCHANGED <<now, development_mode, open_conns, path_vars, cache_vars>>

Accept(ip, peer_ok, setup) ==
    /\ rate_limit_table[hash_ip(ip)].request_count <= RATE_LIMIT_MAX_REQUESTS
    /\ AcceptLoop(ip, peer_ok, setup)
    /\ UNCHANGED attempt

\* accept4 fails with EMFILE or ENFILE.
AcceptEmfile ==
    /\ SetW(EmergencyClose(W, 1, 0, now))
    /\ dispatch' = 0
    /\ UNCHANGED <<http_vars, proc_vars>>
    /\ UNCHANGED <<now, development_mode, attempt, open_conns, path_vars,
                   cache_vars>>

\* EPOLLIN on a client socket: worker_handle_client_data(fd).
ClientData(i, input) ==
    /\ i \in 1 .. Len(clients)
    /\ clients[i].events = "in"
    /\ clients[i].bytes_received + InputLen(input) <= MaxBytes
    /\ SetW(worker_handle_client_data(W, clients[i].fd, input, now))
    /\ dispatch' = 0
    /\ UNCHANGED <<http_vars, proc_vars>>
    /\ UNCHANGED <<now, development_mode, attempt, open_conns, path_vars,
                   cache_vars>>

\* EPOLLOUT on a client socket: worker_handle_client_write(fd).
ClientWrite(i, send_result, mod_ok) ==
    /\ i \in 1 .. Len(clients)
    /\ clients[i].events = "out"
    /\ SetW(worker_handle_client_write(W, clients[i].fd, send_result,
                                       mod_ok, now))
    /\ dispatch' = 0
    /\ UNCHANGED <<http_vars, proc_vars>>
    /\ UNCHANGED <<now, development_mode, attempt, open_conns, path_vars,
                   cache_vars>>

\* EPOLLERR, EPOLLHUP or a lone EPOLLRDHUP: worker_remove_client(fd).
Hangup(i) ==
    /\ i \in 1 .. Len(clients)
    /\ SetW(worker_remove_client(W, clients[i].fd))
    /\ dispatch' = 0
    /\ UNCHANGED <<http_vars, proc_vars>>
    /\ UNCHANGED <<now, development_mode, attempt, open_conns, path_vars,
                   cache_vars>>

\* The kernel: a connection's timer expires, which queues one edge-triggered
\* event for its descriptor; it_interval re-arms the timer.
TimerExpire(i) ==
    /\ i \in 1 .. Len(clients)
    /\ now >= clients[i].timer_deadline
    /\ clients' = [clients EXCEPT
                     ![i].timer_event = TRUE,
                     ![i].timer_deadline = @ + KEEP_ALIVE_TIMEOUT]
    /\ UNCHANGED <<http_vars, proc_vars>>
    /\ UNCHANGED <<now, development_mode, rate_limit_table, closed,
                   dispatch, attempt, open_conns, path_vars,
                   cache_vars>>

\* EPOLLIN on a timer descriptor.  worker_run has no branch for timers: the
\* event takes the EPOLLIN branch, worker_handle_client_data(fd), which
\* finds no client with that fd.
TimerEvent(i) ==
    /\ i \in 1 .. Len(clients)
    /\ clients[i].timer_event
    /\ LET tfd == clients[i].timer_fd
           w1  == [W EXCEPT !.clients[i].timer_event = FALSE]
       IN  SetW(worker_handle_client_data(w1, tfd, [kind |-> "eagain"], now))
    /\ dispatch' = clients[i].timer_fd
    /\ UNCHANGED <<http_vars, proc_vars>>
    /\ UNCHANGED <<now, development_mode, attempt, open_conns, path_vars,
                   cache_vars>>

\* cleanup_rate_limit_table, which worker_run calls after a batch of
\* events once 10 s have passed since the last call; here at any time.
Sweep ==
    /\ rate_limit_table' = cleanup_rate_limit_table(rate_limit_table, now)
    /\ dispatch' = 0
    /\ UNCHANGED <<http_vars, proc_vars>>
    /\ UNCHANGED <<now, development_mode, clients, closed, attempt,
                   open_conns, path_vars,
                   cache_vars>>

Tick ==
    /\ now < MaxTime
    /\ now' = now + 1
    /\ UNCHANGED <<http_vars, proc_vars>>
    /\ UNCHANGED <<worker_vars, path_vars, cache_vars>>

NextWorker ==
    \/ \E ip \in WorkerIPs, peer_ok \in BOOLEAN, setup \in {"ok", "fail"} :
          Accept(ip, peer_ok, setup)
    \/ AcceptEmfile
    \/ \E i \in 1 .. MAX_CONNECTIONS, input \in ReadInputs :
          ClientData(i, input)
    \/ \E i \in 1 .. MAX_CONNECTIONS, s \in {-1, 0, 1}, ok \in BOOLEAN :
          ClientWrite(i, s, ok)
    \/ \E i \in 1 .. MAX_CONNECTIONS : Hangup(i)
    \/ \E i \in 1 .. MAX_CONNECTIONS : TimerExpire(i)
    \/ \E i \in 1 .. MAX_CONNECTIONS : TimerEvent(i)
    \/ Sweep
    \/ Tick

SpecWorker == InitWorker /\ [][NextWorker]_vars

(***************************************************************************)
(* Admission: the accept loop with the client table, under connections     *)
(* from two addresses that share a slot, hang-ups, sweeps and the clock.   *)
(* Each iteration records the address and what check_rate_limit returned.  *)
(***************************************************************************)
AdmitAccept(ip, peer_ok, setup) ==
    /\ rate_limit_table[hash_ip(ip)].request_count < MaxCount
    /\ AcceptLoop(ip, peer_ok, setup)
    /\ attempt' =
          [ip |-> ip,
           ret |-> check_rate_limit(rate_limit_table, ip, now,
                                    development_mode).ret,
           seq |-> 1 - attempt.seq,
           ban_found |-> rate_limit_table[hash_ip(ip)].ban_until]

NextAdmit ==
    \/ \E ip \in ClientIPs, peer_ok \in BOOLEAN, setup \in {"ok", "fail"} :
          AdmitAccept(ip, peer_ok, setup)
    \/ \E i \in 1 .. MAX_CONNECTIONS : Hangup(i)
    \/ Sweep
    \/ Tick

SpecAdmit == InitWorker /\ [][NextAdmit]_vars

(***************************************************************************)
(* The rate limiter as the worker drives it, under connections from        *)
(* several addresses, two of which share a slot.  Of the client table only *)
(* the number of connections per address is kept.                          *)
(***************************************************************************)
RECURSIVE SumOpen(_, _)
SumOpen(f, S) ==
    IF S = {} THEN 0
    ELSE LET x == CHOOSE y \in S : TRUE IN f[x] + SumOpen(f, S \ {x})

\* The accept loop: check_rate_limit, then close(client_fd) or
\* worker_handle_connection, which adds the connection to the client table
\* unless a set-up step fails or the table is full.
RateAccept(ip, setup) ==
    /\ rate_limit_table[hash_ip(ip)].request_count < MaxCount
    /\ LET r == check_rate_limit(rate_limit_table, ip, now, development_mode)
           added == /\ r.ret = 1
                    /\ setup = "ok"
                    /\ SumOpen(open_conns, ClientIPs) < MAX_CONNECTIONS
       IN  /\ rate_limit_table' = r.tbl
           /\ attempt' = [ip |-> ip, ret |-> r.ret, seq |-> 1 - attempt.seq,
                          ban_found |-> rate_limit_table[hash_ip(ip)].ban_until]
           /\ open_conns' = IF added
                            THEN [open_conns EXCEPT ![ip] = @ + 1]
                            ELSE open_conns
    /\ UNCHANGED <<http_vars, proc_vars>>
    /\ UNCHANGED <<now, development_mode, clients, closed, dispatch,
                   path_vars, cache_vars>>

\* worker_remove_client for a connection of the address.
RateClose(ip) ==
    /\ open_conns[ip] > 0
    /\ rate_limit_table' = decrement_connection_count(rate_limit_table, ip)
    /\ open_conns' = [open_conns EXCEPT ![ip] = @ - 1]
    /\ UNCHANGED <<http_vars, proc_vars>>
    /\ UNCHANGED <<now, development_mode, clients, closed, dispatch,
                   attempt, path_vars, cache_vars>>

RateTick ==
    /\ now < RateMaxTime
    /\ now' = now + 1
    /\ UNCHANGED <<http_vars, proc_vars>>
    /\ UNCHANGED <<worker_vars, path_vars, cache_vars>>

NextRate ==
    \/ \E ip \in ClientIPs, setup \in {"ok", "fail"} : RateAccept(ip, setup)
    \/ \E ip \in ClientIPs : RateClose(ip)
    \/ Sweep
    \/ RateTick

SpecRate == InitWorker /\ [][NextRate]_vars

(***************************************************************************)
(* Connection accounting and timers.                                       *)
(***************************************************************************)

\* C1: in production mode, a connection the rate limiter admitted has had
\* exactly one decrement_connection_count call made for its address by the
\* time the worker has closed it, whether worker_handle_connection gave it
\* up during set-up or worker_remove_client destroyed it.
C1_OneReleasePerAdmitted ==
    (~development_mode /\ closed.how \in {"setup", "removed"})
        => closed.releases = 1

\* C8: when the event of a connection's timer is dispatched and the
\* connection has been idle for the timeout or longer, the connection is
\* removed from the client table by that step.
C8_IdleClosedOnTimer ==
    [][\A i \in 1 .. Len(clients) :
          ( /\ clients[i].timer_event
            /\ dispatch' = clients[i].timer_fd
            /\ now - clients[i].last_activity >= KEEP_ALIVE_TIMEOUT )
          => FindClient(clients', clients[i].fd) = 0]_vars

\* C9: when the event of a connection's timer is dispatched and the
\* connection has sent between one and three bytes and has been open for
\* the slow-client timeout or longer, the connection is removed from the
\* client table by that step.
C9_SlowClosedOnTimer ==
    [][\A i \in 1 .. Len(clients) :
          ( /\ clients[i].timer_event
            /\ dispatch' = clients[i].timer_fd
            /\ clients[i].bytes_received > 0
            /\ clients[i].bytes_received < 4
            /\ now - clients[i].connection_start >= SLOW_LORIS_TIMEOUT )
          => FindClient(clients', clients[i].fd) = 0]_vars

(***************************************************************************)
(* The rate limiter.                                                       *)
(***************************************************************************)
Banned(e, t) == e.ban_until > 0 /\ t < e.ban_until

\* The slot of the address holds the address, its window has not elapsed
\* and its connection count is below the per-address cap.
InsideWindow(ip) ==
    LET e == rate_limit_table[hash_ip(ip)]
    IN  /\ ~development_mode
        /\ e.ip = ip
        /\ now - e.window_start < RATE_LIMIT_WINDOW
        /\ e.connection_count < MAX_CONCURRENT_CONNECTIONS_PER_IP

\* C10: in production mode, an attempt from an address inside its window,
\* below the concurrent cap, is admitted while it is among the first
\* RATE_LIMIT_MAX_REQUESTS of the window and denied afterwards; a denied
\* attempt adds one violation unless the address is banned already, in
\* which case it adds none; the attempt that brings the violations to
\* MAX_VIOLATIONS_BEFORE_BAN sets ban_until to now + BAN_DURATION.
C10_WindowThresholdBan ==
    [][(attempt'.seq # attempt.seq /\ InsideWindow(attempt'.ip)) =>
        LET h  == hash_ip(attempt'.ip)
            e  == rate_limit_table[h]
            e1 == rate_limit_table'[h]
            k  == e.request_count + 1
        IN  /\ (k <= RATE_LIMIT_MAX_REQUESTS) =>
                    /\ attempt'.ret = 1
                    /\ e1.violation_count = e.violation_count
            /\ (k > RATE_LIMIT_MAX_REQUESTS) =>
                    /\ attempt'.ret = 0
                    /\ e1.violation_count =
                          IF Banned(e, now) THEN e.violation_count
                          ELSE e.violation_count + 1
            /\ ( /\ e1.violation_count # e.violation_count
                 /\ e1.violation_count = MAX_VIOLATIONS_BEFORE_BAN )
                    => e1.ban_until = now + BAN_DURATION]_vars

\* An attempt has just brought the violations to the ban threshold, in a
\* window whose first RATE_LIMIT_MAX_REQUESTS attempts were admitted.
C10_Witness ==
    LET e == rate_limit_table[hash_ip(attempt.ip)]
    IN  /\ ~development_mode
        /\ attempt.ret = 0
        /\ e.ip = attempt.ip
        /\ e.request_count =
              RATE_LIMIT_MAX_REQUESTS + MAX_VIOLATIONS_BEFORE_BAN
        /\ e.violation_count = MAX_VIOLATIONS_BEFORE_BAN
        /\ e.ban_until = now + BAN_DURATION

\* C10 as stated: every attempt of the window after the first
\* RATE_LIMIT_MAX_REQUESTS is denied and adds one violation.
C10_EveryDenialAddsViolation ==
    [][(attempt'.seq # attempt.seq /\ InsideWindow(attempt'.ip)) =>
        LET h  == hash_ip(attempt'.ip)
            e  == rate_limit_table[h]
            e1 == rate_limit_table'[h]
        IN  (e.request_count + 1 > RATE_LIMIT_MAX_REQUESTS) =>
                /\ attempt'.ret = 0
                /\ e1.violation_count = e.violation_count + 1]_vars

\* C11: in production mode, while the slot of an address holds the entry
\* of that address with ban_until set and now < ban_until, no step (an
\* attempt of any address, a close, a sweep, a second passing) changes the
\* address or the ban_until of the entry, and an attempt from the address
\* is denied; the attempt from the
\* address that finds the entry with now >= ban_until is admitted and
\* leaves ban_until and violation_count at 0.
C11_BanHonouredUntilExpiry ==
    [][~development_mode =>
        /\ \A h \in Slots :
              Banned(rate_limit_table[h], now) =>
                  /\ rate_limit_table'[h].ip = rate_limit_table[h].ip
                  /\ rate_limit_table'[h].ban_until =
                        rate_limit_table[h].ban_until
        /\ LET h  == hash_ip(attempt'.ip)
               e  == rate_limit_table[h]
               e1 == rate_limit_table'[h]
           IN  ( /\ attempt'.seq # attempt.seq
                 /\ e.ip = attempt'.ip
                 /\ e.ban_until > 0 )
               => IF now < e.ban_until
                  THEN attempt'.ret = 0
                  ELSE /\ attempt'.ret = 1
                       /\ e1.ip = attempt'.ip
                       /\ e1.ban_until = 0
                       /\ e1.violation_count = 0
                       /\ e1.request_count = 1]_vars

\* An attempt from a banned address has just been admitted, at or after the
\* end of its ban: the entry is the address's, it was reset at this second,
\* and the clock has passed the BAN_DURATION seconds a ban lasts.
C11_Witness ==
    LET e == rate_limit_table[hash_ip(attempt.ip)]
    IN  /\ ~development_mode
        /\ attempt.ret = 1
        /\ attempt.ban_found > 0
        /\ now >= attempt.ban_found
        /\ e.ip = attempt.ip
        /\ e.window_start = now
        /\ e.ban_until = 0
        /\ now >= EPOCH + BAN_DURATION

\* C12: in production mode, an attempt from an address whose slot is empty
\* or holds the entry of another address, whatever the window, the counts
\* and the ban of that entry, is admitted and leaves the slot holding the
\* new address with request_count 1.
C12_NewAddressAdmitted ==
    [][( /\ ~development_mode
         /\ attempt'.seq # attempt.seq
         /\ rate_limit_table[hash_ip(attempt'.ip)].ip # attempt'.ip )
       => /\ attempt'.ret = 1
          /\ rate_limit_table'[hash_ip(attempt'.ip)].ip = attempt'.ip
          /\ rate_limit_table'[hash_ip(attempt'.ip)].request_count = 1]_vars

\* C13: an iteration of the accept loop in which check_rate_limit returns 0
\* closes the accepted socket and nothing else: the client table (with the
\* descriptors, timers and event registrations of its entries) is as it
\* was, and no byte of a response is written.
C13_DeniedNeverRegistered ==
    [][(attempt'.seq # attempt.seq /\ attempt'.ret = 0) =>
          /\ clients' = clients
          /\ closed' = [how |-> "denied", releases |-> 0]
          /\ wire' = wire
          /\ reply' = reply]_vars

\* A denied attempt has just been closed while the client table holds a
\* connection and has room for another.
C13_Witness ==
    /\ ~development_mode
    /\ attempt.ret = 0
    /\ closed.how = "denied"
    /\ Len(clients) = 1

\* C14: in development mode every attempt is admitted, and each attempt
\* still updates the counters of its address: afterwards the slot holds the
\* address, and the attempt has been counted in request_count and
\* connection_count.
C14_DevModeTracksCounters ==
    [][(development_mode /\ attempt'.seq # attempt.seq) =>
        LET e  == rate_limit_table[hash_ip(attempt'.ip)]
            e1 == rate_limit_table'[hash_ip(attempt'.ip)]
        IN  /\ attempt'.ret = 1
            /\ e1.ip = attempt'.ip
            /\ e1.request_count >= 1
            /\ e1.connection_count >= 1
            /\ e1 # e]_vars

(***************************************************************************)
(* The path resolver: a request path arrives character by character and is *)
(* then resolved, under every target of the link /w/l and with the root    *)
(* configured by its own name or through the link /r.                      *)
(***************************************************************************)
PathAppend(c) ==
    /\ resolved.ret = 1
    /\ Len(request_path) < MaxPathLen
    /\ request_path' = Append(request_path, c)
    /\ UNCHANGED <<http_vars, proc_vars>>
    /\ UNCHANGED <<now, worker_vars, symlinks, root_dir, resolved,
                   cache_vars>>

PathResolve ==
    /\ resolved.ret = 1
    /\ resolved' = validate_and_resolve_path(symlinks, root_dir, request_path,
                                             PATH_MAX)
    /\ UNCHANGED <<http_vars, proc_vars>>
    /\ UNCHANGED <<now, worker_vars, symlinks, root_dir, request_path,
                   cache_vars>>

InitPath ==
    /\ WorkerStart(FALSE)
    /\ CacheStart
    /\ HttpStart
    /\ ProcIdle
    /\ \E root \in {P_w, P_r}, target \in LinkTargets : PathStart(root, target)

NextPath ==
    \/ \E c \in PathChars : PathAppend(c)
    \/ PathResolve

SpecPath == InitPath /\ [][NextPath]_vars

\* C2: when validate_and_resolve_path returns 0, the resolved path is the
\* canonical root or begins with the canonical root followed by '/'.
C2_ResolvedUnderRoot ==
    resolved.ret = 0 =>
        LET canonical_root == Realpath(symlinks, root_dir)
            n == Len(canonical_root)
        IN  \/ resolved.path = canonical_root
            \/ /\ Len(resolved.path) > n
               /\ SubSeq(resolved.path, 1, n + 1) = canonical_root \o <<"/">>

\* A path whose last component does not exist was resolved through its
\* parent directory, reached through the link /w/l.
C2_Witness ==
    /\ resolved.ret = 0
    /\ symlinks[P_w_l] = P_w_d
    /\ request_path = <<"/", "l", "/", "n">>
    /\ resolved.path = <<"/", "w", "/", "d", "/", "n">>

(***************************************************************************)
(* The cache under any sequence of lookups and inserts, which purge as     *)
(* they go.                                                                *)
(***************************************************************************)
CacheC ==
    [cache |-> response_cache, index |-> cache_index, stats |-> cache_stats]

SetCache(c) ==
    /\ response_cache' = c.cache
    /\ cache_index' = c.index
    /\ cache_stats' = c.stats

\* The requests told apart by the cache: path and Accept-Encoding.
CacheRequests == {<<P_w_a, "absent">>, <<P_w_a, "gzip">>, <<P_w_d_a, "absent">>}
CacheMaxTime == EPOCH + CacheHorizon
Blob(n) == [i \in 1 .. n |-> "b"]
ETAG == <<"t">>

CacheLookup(path, ae) ==
    /\ LET r == find_cached_response(CacheC, path, ae, now)
       IN  /\ SetCache(r.c)
           /\ cache_op' = [op |-> "find", path |-> path,
                           key |-> generate_vary_key(path, ae),
                           hit |-> r.hit]
    /\ UNCHANGED <<http_vars, proc_vars>>
    /\ UNCHANGED <<now, worker_vars, path_vars>>

CacheInsert(path, ae, n, malloc_ok) ==
    /\ SetCache(cache_response(CacheC, path, Blob(n), n, ae, ETAG, malloc_ok,
                               now))
    /\ cache_op' = [op |-> "store", len |-> n]
    /\ UNCHANGED <<http_vars, proc_vars>>
    /\ UNCHANGED <<now, worker_vars, path_vars>>

CacheTick ==
    /\ now < CacheMaxTime
    /\ now' = now + 1
    /\ cache_op' = [op |-> "none"]
    /\ UNCHANGED <<http_vars, proc_vars>>
    /\ UNCHANGED <<worker_vars, path_vars, response_cache, cache_index,
                   cache_stats>>

InitCache ==
    /\ WorkerStart(FALSE)
    /\ PathStart(P_w, NullPath)
    /\ CacheStart
    /\ HttpStart
    /\ ProcIdle

NextCache ==
    \/ \E r \in CacheRequests : CacheLookup(r[1], r[2])
    \/ \E r \in CacheRequests, n \in 1 .. MaxBlobLen, ok \in BOOLEAN :
          CacheInsert(r[1], r[2], n, ok)
    \/ CacheTick

SpecCache == InitCache /\ [][NextCache]_vars

Resident(e) == e.path # <<>>

RECURSIVE SumLen(_, _)
SumLen(cache, S) ==
    IF S = {} THEN 0
    ELSE LET i == CHOOSE j \in S : TRUE
         IN  (IF Resident(cache[i]) THEN cache[i].response_len ELSE 0)
             + SumLen(cache, S \ {i})

\* C4: the entry find_cached_response returns has the looked-up path and
\* vary key and is younger than CACHE_TIMEOUT, whichever slot it is in.
C4_HitMatches ==
    (cache_op.op = "find" /\ cache_op.hit >= 0) =>
        LET e == response_cache[cache_op.hit]
        IN  /\ e.path = cache_op.path
            /\ e.vary_key = cache_op.key
            /\ now - e.timestamp < CACHE_TIMEOUT

\* A hit found by the linear sweep, outside the primary slot of its key,
\* while the other slot holds an entry that has outlived CACHE_TIMEOUT.
C4_Witness ==
    /\ cache_op.op = "find"
    /\ cache_op.hit >= 0
    /\ cache_op.hit # hash_key(cache_op.key)
    /\ \E j \in CacheSlots : Expired(response_cache[j], now)

\* C5: no resident entry is longer than MAX_CACHE_ENTRY_SIZE, the lengths
\* of the resident entries sum to at most MAX_TOTAL_CACHE_MEMORY, and an
\* insert that is longer than the first or would pass the second even
\* after purging leaves every slot as it was or purged.
C5_CapsHold ==
    /\ [](\A i \in CacheSlots :
            Resident(response_cache[i]) =>
                response_cache[i].response_len <= MAX_CACHE_ENTRY_SIZE)
    /\ [](SumLen(response_cache, CacheSlots) <= MAX_TOTAL_CACHE_MEMORY)
    /\ [][( /\ cache_op'.op = "store"
            /\ \/ cache_op'.len > MAX_CACHE_ENTRY_SIZE
               \/ SumLen(cleanup_expired_cache_entries(CacheC, now).cache,
                         CacheSlots) + cache_op'.len
                     > MAX_TOTAL_CACHE_MEMORY )
          => \A i \in CacheSlots :
                \/ response_cache'[i] = response_cache[i]
                \/ response_cache'[i] = EmptyCacheEntry]_vars

\* An insert within the per-entry cap was refused because the resident
\* entries left too little room.
C5_Witness ==
    /\ cache_op.op = "store"
    /\ cache_op.len <= MAX_CACHE_ENTRY_SIZE
    /\ SumLen(response_cache, CacheSlots) + cache_op.len
          > MAX_TOTAL_CACHE_MEMORY
    /\ \A i \in CacheSlots : Resident(response_cache[i])

(***************************************************************************)
(* HTTP (http.c).  A request is kept as the text the client sent: the      *)
(* three fields of the request line and the header lines in order.  Text   *)
(* is a sequence of characters; a header name, a carriage return and a     *)
(* line feed each count as one character.                                  *)
(***************************************************************************)
MAX_HEADERS == 12                             \* http.h
MAX_HEADER_SIZE == 64                         \* http.h
IF_NONE_COPY_SIZE == 48                       \* http.c:935, char[1024]
CLEAN_TOKEN_SIZE == 32                        \* http.c:950, char[256]
HEADER_LEN == 1       \* bytes of the header block of a cached response
CACHEABLE_FILE_SIZE == 2                      \* http.c:532, 1 MiB

CRLF == <<"CR", "LF">>
QUOTE == "\""
CLOSE == <<"c", "l", "o", "s", "e">>
KEEP_ALIVE == <<"k", "e", "e", "p", "-", "a", "l", "i", "v", "e">>

Range(f) == {f[i] : i \in DOMAIN f}

isspace(c) == c \in {" ", "CR", "LF", "TAB"}

\* strncpy(dst, s, n) into a zeroed buffer
Strncpy(s, n) == SubSeq(s, 1, IF Len(s) < n THEN Len(s) ELSE n)

\* The header lines as they stand in the receive buffer.
RECURSIVE HeaderLines(_)
HeaderLines(hs) ==
    IF hs = <<>> THEN <<>>
    ELSE <<Head(hs)[1], ":", " ">> \o Head(hs)[2] \o CRLF
         \o HeaderLines(Tail(hs))

RECURSIVE SkipBlanks(_)
SkipBlanks(s) ==
    IF s # <<>> /\ Head(s) = " " THEN SkipBlanks(Tail(s)) ELSE s

\* http_parse_request, the value stored for header line i: the text from
\* the colon on, leading blanks skipped.  The name is terminated at the
\* colon; the value is not terminated at the end of its line, so the copy
\* runs on to the end of the buffer or to the size of the field.
HeaderValue(hs, i) ==
    LET after_colon == <<" ">> \o hs[i][2] \o CRLF
                       \o HeaderLines(SubSeq(hs, i + 1, Len(hs))) \o CRLF
    IN  Strncpy(SkipBlanks(after_colon), MAX_HEADER_SIZE - 1)

\* The index of the first header of the name, 0 when there is none.
FindHeader(headers, name) ==
    IF \E i \in 1 .. Len(headers) : headers[i][1] = name
    THEN CHOOSE i \in 1 .. Len(headers) :
            /\ headers[i][1] = name
            /\ \A j \in 1 .. (i - 1) : headers[j][1] # name
    ELSE 0

\* sscanf("%15s %2047s %15s") over the text: the third field is the version
\* when the request line has one; when the line ends after the URI the
\* scan goes on over the line break and takes the first word of the next
\* line, the name of the first header with its colon; with no header it
\* finds two fields only.  The fields fit their widths.
ScanVersion(text) ==
    IF text.version # "" THEN text.version
    ELSE IF text.headers # <<>> THEN text.headers[1][1] \o ":"
    ELSE ""

\* The value returned (0, or -1 when the request line does not scan into
\* three fields) and the request filled in.
http_parse_request(text) ==
    LET n == IF Len(text.headers) < MAX_HEADERS THEN Len(text.headers)
             ELSE MAX_HEADERS
        headers == [i \in 1 .. n |->
                       <<text.headers[i][1], HeaderValue(text.headers, i)>>]
        c == FindHeader(headers, "Connection")
        version == ScanVersion(text)
    IN  [ret |-> IF version = "" THEN -1 ELSE 0,
         method |-> text.method, uri |-> text.uri, version |-> version,
         headers |-> headers,
         keep_alive |->
            IF c # 0 /\ headers[c][2] = CLOSE THEN 0
            ELSE IF c # 0 /\ headers[c][2] = KEEP_ALIVE THEN 1
            ELSE IF version = "HTTP/1.1" THEN 1 ELSE 0]

http_should_keep_alive(req) ==
    LET c == FindHeader(req.headers, "Connection")
    IN  IF req.version = "HTTP/1.1"
        THEN IF c # 0 /\ req.headers[c][2] = CLOSE THEN 0 ELSE 1
        ELSE IF req.version = "HTTP/1.0"
        THEN IF c # 0 /\ req.headers[c][2] = KEEP_ALIVE THEN 1 ELSE 0
        ELSE 0

\* What generate_vary_key and http_negotiate_compression make of the
\* request's Accept-Encoding: strstr over the stored value.
AcceptEncoding(req) ==
    LET a == FindHeader(req.headers, "Accept-Encoding")
    IN  IF a = 0 THEN "absent"
        ELSE IF StrStr(req.headers[a][2], GZIP) THEN "gzip"
        ELSE IF StrStr(req.headers[a][2], DEFLATE) THEN "deflate"
        ELSE "identity"

http_negotiate_compression(req) ==
    LET ae == AcceptEncoding(req)
    IN  IF ae \in {"gzip", "deflate"} THEN ae ELSE "none"

\* strtok(s, d): the non-empty runs of s between occurrences of d
RECURSIVE Strtok(_, _)
Strtok(s, d) ==
    LET i == IndexOf(s, d)
    IN  IF s = <<>> THEN <<>>
        ELSE IF i = 0 THEN <<s>>
        ELSE IF i = 1 THEN Strtok(Tail(s), d)
        ELSE <<SubSeq(s, 1, i - 1)>> \o Strtok(SubSeq(s, i + 1, Len(s)), d)

RECURSIVE SkipSpace(_)
SkipSpace(s) ==
    IF s # <<>> /\ isspace(Head(s)) THEN SkipSpace(Tail(s)) ELSE s

RECURSIVE TrimSpace(_)
TrimSpace(s) ==
    IF s # <<>> /\ isspace(s[Len(s)])
    THEN TrimSpace(SubSeq(s, 1, Len(s) - 1))
    ELSE s

\* A token without the weak prefix: what fills clean_token before it is
\* trimmed, the opening quote and all from the last quote on dropped.
Unquote(start, size) ==
    IF start # <<>> /\ Head(start) = QUOTE
    THEN LET rest == Tail(start)
             end == LastIndexOf(rest, QUOTE)
         IN  IF end # 0 THEN SubSeq(rest, 1, end - 1)
             ELSE Strncpy(rest, size - 1)
    ELSE Strncpy(start, size - 1)

CleanToken(token) ==
    LET start == IF Len(token) >= 2 /\ token[1] = "W" /\ token[2] = "/"
                 THEN SubSeq(token, 3, Len(token))
                 ELSE token
    IN  TrimSpace(Unquote(start, CLEAN_TOKEN_SIZE))

\* The entity tag the tokens are compared with.
CleanEtag(etag) ==
    IF etag # <<>> /\ Head(etag) = QUOTE
    THEN LET rest == Tail(etag)
             end == LastIndexOf(rest, QUOTE)
         IN  IF end # 0 THEN SubSeq(rest, 1, end - 1) ELSE <<>>
    ELSE etag

\* The loop over the tokens of If-None-Match, on a hit and on a miss.
IfNoneMatches(if_none, etag) ==
    LET tokens == Strtok(Strncpy(if_none, IF_NONE_COPY_SIZE - 1), ",")
    IN  \E k \in 1 .. Len(tokens) :
            LET token == SkipSpace(tokens[k])
            IN  \/ token = <<"*">>
                \/ CleanToken(token) = CleanEtag(etag)

(***************************************************************************)
(* Files and responses.  A response on the wire is the sequence of its     *)
(* parts: the status line, one part per header line, the empty line, and   *)
(* the body.                                                               *)
(***************************************************************************)
FileSize(path) == IF path = P_w_p THEN 0 ELSE 1             \* st_size
ETagOf(path) ==                               \* "inode-size-mtime"
    IF path = P_w_i THEN <<QUOTE, "t", QUOTE>>
    ELSE IF path = P_w_p THEN <<QUOTE, "u", QUOTE>>
    ELSE <<QUOTE, "v", QUOTE>>
INDEX == <<"/", "i", ".", "t">>               \* "/index.html"

\* strrchr(path, '.'): the extension with its dot, <<>> when there is none
ExtOf(path) ==
    LET i == LastIndexOf(path, ".")
    IN  IF i = 0 THEN <<>> ELSE SubSeq(path, i, Len(path))

http_get_mime_type(path) ==
    IF ExtOf(path) = <<".", "g">> THEN "image/png" ELSE "text/html"

http_should_compress_mime_type(mime_type) == mime_type = "text/html"

CacheControl(ext) ==
    IF ext = <<".", "g">> THEN "public, max-age=604800, immutable"
    ELSE IF ext = <<".", "t">> THEN "public, max-age=300, must-revalidate"
    ELSE "public, max-age=3600"

SizeText(n) == IF n = 0 THEN "0" ELSE IF n = 1 THEN "1" ELSE "many"

StatusLine(code) == <<"HTTP/1.1", code>>
HeaderPart(h) == <<"header", h[1], h[2]>>
EmptyLine == <<"CRLF">>
FileBody(path, n) ==
    IF n = 0 THEN <<>> ELSE << <<"file", path, SizeText(n)>> >>
CompressedBody(path, how) == << <<"compressed", path, how>> >>

HeaderParts(headers) == [i \in 1 .. Len(headers) |-> HeaderPart(headers[i])]

http_create_response(status_code) ==
    [status_code |-> status_code,
     headers |-> << <<"Server", "NxLite">> >>,
     body_length |-> 0, is_file |-> 0, file |-> <<>>,
     keep_alive |-> 0, is_cached |-> 0, cached_response |-> NullBlob,
     body |-> FALSE, file_fd |-> -1,
     compressed_body |-> FALSE, compression_type |-> "none"]

http_add_header(r, name, value) ==
    [r EXCEPT !.headers = IF Len(@) < MAX_HEADERS
                          THEN Append(@, <<name, value>>)
                          ELSE @]

FILE_FD == 3                               \* what open returns

\* A variant of ReadIntoMemory that leaves the response marked as a file
\* with its descriptor open.
ReadIntoMemoryKeepsFile(r, fd, size) ==
    [r EXCEPT !.body = TRUE, !.body_length = size, !.is_file = 1,
              !.file_fd = fd]

\* http_serve_file, the file's content read for compression: the body is
\* in memory and the descriptor closed.
ReadIntoMemory(r, fd, size) ==
    [r EXCEPT !.body = TRUE, !.body_length = size, !.is_file = 0,
              !.file_fd = -1]

\* http_serve_file for a path the resolver returned.  Compression of a body
\* read into memory succeeds; malloc_ok is the outcome of the allocations
\* made for the cache.
http_serve_file(c, full_path, r, req, malloc_ok, t) ==
    LET size == FileSize(full_path)
        mime_type == http_get_mime_type(full_path)
        ext == ExtOf(full_path)
        \* Content-Type, the body and its length
        Body(r1) ==
            IF /\ http_should_compress_mime_type(mime_type)
               /\ r1.compression_type # "none"
            THEN http_add_header(
                   http_add_header(
                     [ReadIntoMemory(r1, FILE_FD, size)
                        EXCEPT !.compressed_body = TRUE,
                               !.file = full_path],
                     "Content-Encoding", r1.compression_type),
                   "Content-Length", "compressed")
            ELSE http_add_header(
                   [r1 EXCEPT !.body_length = size, !.is_file = 1,
                              !.file_fd = FILE_FD, !.file = full_path],
                   "Content-Length", SizeText(size))
        \* the validators and the caching policy
        Policy(r2) ==
            http_add_header(
              http_add_header(
                http_add_header(
                  http_add_header(r2, "Last-Modified", "mtime"),
                  "ETag", ETagOf(full_path)),
                "Vary", "Accept-Encoding, User-Agent"),
              "Cache-Control",
              IF ext # <<>> THEN CacheControl(ext)
              ELSE "no-cache, no-store, must-revalidate")
        \* the copy handed to the cache
        Store(r4) ==
            [ret |-> 0,
             c |-> IF /\ ext # <<>>
                      /\ size < CACHEABLE_FILE_SIZE
                      /\ ~r4.compressed_body
                   THEN cache_response(
                          c, full_path,
                          <<StatusLine("200 OK")>> \o HeaderParts(r4.headers)
                          \o <<HeaderPart(<<"Connection", "keep-alive">>),
                               EmptyLine>>
                          \o FileBody(full_path, size),
                          HEADER_LEN + size, AcceptEncoding(req),
                          ETagOf(full_path), malloc_ok, t)
                   ELSE c,
             response |-> r4]
    IN  IF full_path \notin Files
        THEN [ret |-> -1, c |-> c, response |-> r]
        ELSE Store(Policy(Body(http_add_header(r, "Content-Type",
                                               mime_type))))

\* The filesystem is reached once the path has passed the tests made on
\* its text.
ReachesRealpath(root, path) ==
    /\ ~StrStr(path, <<".", ".">>)
    /\ Len(root \o path) < PATH_MAX

\* A date of If-Modified-Since as strptime and mktime read it in a process
\* whose zone is UTC: the seconds it lies after the file's st_mtime.  "M"
\* is the date the server sends as Last-Modified, "O" an earlier and "L" a
\* later one; what follows the date in the value is ignored.
NoDate == [parsed |-> FALSE, after |-> 0]
strptime_since(v) ==
    IF v = <<>> THEN NoDate
    ELSE IF Head(v) = "O" THEN [parsed |-> TRUE, after |-> -1]
    ELSE IF Head(v) = "M" THEN [parsed |-> TRUE, after |-> 0]
    ELSE IF Head(v) = "L" THEN [parsed |-> TRUE, after |-> 1]
    ELSE NoDate

\* lines 1157-1214: the file is not newer than the date of the request
\* (difftime(st.st_mtime, since_time) <= 0).
NotModifiedSince(headers) ==
    LET m == FindHeader(headers, "If-Modified-Since")
        since == IF m = 0 THEN NoDate ELSE strptime_since(headers[m][2])
    IN  since.parsed /\ 0 - since.after <= 0

\* http_handle_request.  The value holds the cache as the handler leaves
\* it, the response, and which of the filesystem and the cache the handler
\* reached.
http_handle_request(c, links, root, req, malloc_ok, t) ==
    LET r0 == http_create_response("200 OK")
        is_head == req.method = "HEAD"
        uri_path == IF req.uri = <<"/">> THEN INDEX ELSE req.uri
        on_fs == IF ReachesRealpath(root, uri_path) THEN {"fs"} ELSE {}
        n == FindHeader(req.headers, "If-None-Match")
        ka == http_should_keep_alive(req)
        Out(cache, r) ==
            [c |-> cache, consulted |-> on_fs \cup {"cache"}, response |-> r]
        \* lines 1216-1293: the file is served
        Served(s) ==
            IF s.ret # 0
            THEN Out(s.c, [s.response EXCEPT !.status_code = "404 Not Found",
                                             !.keep_alive = 0])
            ELSE Out(s.c,
                     [(IF ka = 1
                       THEN http_add_header(s.response, "Keep-Alive",
                                            "timeout=N")
                       ELSE s.response)
                      EXCEPT
                        !.keep_alive = ka,
                        !.is_file = IF is_head THEN 0 ELSE @,
                        !.is_cached = IF is_head THEN 0 ELSE @,
                        !.body_length = IF is_head THEN 0 ELSE @])
        \* lines 1126-1144: Cache-Control for a path with an extension
        Policy(r, ext) ==
            IF ext # <<>>
            THEN http_add_header(r, "Cache-Control", CacheControl(ext))
            ELSE r
        \* lines 1024-1155: no entry was found
        Miss(cache, file_path) ==
            IF file_path \notin Files \cup Dirs
            THEN Out(cache, [r0 EXCEPT !.status_code = "404 Not Found"])
            ELSE IF /\ n # 0
                    /\ IfNoneMatches(req.headers[n][2], ETagOf(file_path))
            THEN Out(cache,
                     [http_add_header(
                        Policy(http_add_header(r0, "ETag", ETagOf(file_path)),
                               ExtOf(file_path)),
                        "Vary", "Accept-Encoding, User-Agent")
                      EXCEPT !.status_code = "304 Not Modified",
                             !.keep_alive = ka])
            ELSE IF NotModifiedSince(req.headers)
            THEN Out(cache,
                     [http_add_header(
                        http_add_header(
                          http_add_header(r0, "ETag", ETagOf(file_path)),
                          "Last-Modified", "mtime"),
                        "Vary", "Accept-Encoding, User-Agent")
                      EXCEPT !.status_code = "304 Not Modified",
                             !.keep_alive = ka])
            ELSE Served(http_serve_file(
                          cache, file_path,
                          [r0 EXCEPT !.compression_type =
                              IF http_should_compress_mime_type(
                                    http_get_mime_type(file_path))
                              THEN http_negotiate_compression(req)
                              ELSE "none"],
                          req, malloc_ok, t))
        \* lines 922-1021: an entry was found
        Hit(cache, entry) ==
            IF n # 0 /\ IfNoneMatches(req.headers[n][2], entry.etag)
            THEN Out(cache,
                     [http_add_header(r0, "ETag", entry.etag)
                        EXCEPT !.status_code = "304 Not Modified",
                               !.keep_alive = ka])
            ELSE Out(cache,
                     [r0 EXCEPT !.is_cached = 1,
                                !.cached_response = entry.response,
                                !.body_length = IF is_head THEN 0
                                                ELSE entry.response_len,
                                !.keep_alive = ka])
        Found(f, file_path) ==
            IF f.hit # -1 THEN Hit(f.c, f.c.cache[f.hit])
            ELSE Miss(f.c, file_path)
        Resolved(v) ==
            IF v.ret # 0
            THEN [c |-> c, consulted |-> on_fs,
                  response |-> [r0 EXCEPT !.status_code = "403 Forbidden"]]
            ELSE Found(find_cached_response(c, v.path, AcceptEncoding(req),
                                            t),
                       v.path)
    IN  IF req.method \notin {"GET", "HEAD"}
        THEN [c |-> c, consulted |-> {},
              response |-> [r0 EXCEPT !.status_code = "501 Not Implemented"]]
        ELSE Resolved(validate_and_resolve_path(links, root, uri_path,
                                                PATH_MAX))

\* http_send_response when nothing stops it: the parts written.
http_send_response(r) ==
    IF r.is_cached = 1 /\ r.cached_response # NullBlob
    THEN IF r.body_length = 0 THEN <<>> ELSE r.cached_response
    ELSE
    <<StatusLine(r.status_code)>> \o HeaderParts(r.headers)
    \o <<HeaderPart(<<"Connection",
                      IF r.keep_alive = 1 THEN "keep-alive" ELSE "close">>),
         EmptyLine>>
    \o (IF r.is_file = 1 /\ r.file_fd >= 0
        THEN FileBody(r.file, r.body_length)
        ELSE IF r.compressed_body
        THEN CompressedBody(r.file, r.compression_type)
        ELSE <<>>)

(***************************************************************************)
(* One connection at a time sends requests to a worker in development      *)
(* mode, where the rate limiter admits every connection.  A send that      *)
(* would block does so before its first byte, and the allocations made to  *)
(* store a response succeed.  The requests all arrive within the second    *)
(* the worker started in, so that what is stored does not expire.          *)
(***************************************************************************)
HttpMaxBytes == 8     \* bytes one connection sends to the request handler

Host == <<"Host", <<"x">>>>
TagT == ETagOf(P_w_i)
TagU == ETagOf(P_w_p)
Weak(tag) == <<"W", "/">> \o tag

\* Values of If-None-Match sent for the index page.
IfNoneMatchValues ==
    {TagT, Weak(TagT), <<"*">>, TagU,
     TagU \o <<",", " ">> \o TagT,
     TagU \o <<",", " ", "*">>}

Text(method, uri, version, headers) ==
    [method |-> method, uri |-> uri, version |-> version,
     headers |-> headers]

HttpTexts ==
    {Text(m, u, "HTTP/1.1", <<Host>>) :
        m \in {"GET", "HEAD"}, u \in {INDEX, <<"/", "n">>, <<"/", ".", ".">>}}
    \cup {Text("GET", u, "HTTP/1.1", <<Host>>) :
            u \in {<<"/">>, <<"/", "p", ".", "g">>, <<"/", "a", ".", ".">>}}
    \cup {Text("GET", INDEX, "HTTP/1.1", <<Host, <<"If-None-Match", v>>>>) :
            v \in IfNoneMatchValues}
    \cup {Text("GET", INDEX, "HTTP/1.1",
               <<<<"If-None-Match", TagT>>,
                 <<"User-Agent", <<QUOTE, "q", QUOTE>>>>>>),
          Text("GET", INDEX, "HTTP/1.1", <<Host, <<"Connection", CLOSE>>>>),
          Text("GET", INDEX, "HTTP/1.1", <<Host, <<"Accept-Encoding", GZIP>>>>),
          Text("POST", INDEX, "HTTP/1.1", <<Host>>)}
    \cup {Text("GET", INDEX, v, <<Host>>) :
            v \in {"HTTP/1.0", "HTTP/999.999", ""}}
    \cup {Text("GET", INDEX, "HTTP/1.0", <<Host, <<"Connection", KEEP_ALIVE>>>>),
          Text("GET", INDEX, "", <<>>),
          Text("HEAD", INDEX, "HTTP/1.1", <<Host, <<"Accept-Encoding", GZIP>>>>),
          Text("GET", <<"/", "a">>, "HTTP/1.1", <<Host>>)}
    \cup {Text("GET", INDEX, "HTTP/1.1", <<Host, <<"If-Modified-Since", v>>>>) :
            v \in {<<"O">>, <<"M">>, <<"L">>}}

NoRequest == [method |-> "none"]
BUFFER_SIZE == 5                          \* 8 KiB; a request fits
\* What is read when the buffer fills before a CRLFCRLF has appeared.
Overlong == [method |-> "none", bytes |-> BUFFER_SIZE - 1]
NoOrigin == [request |-> NoRequest, wire |-> <<>>]

\* The handler stored a response for the key of the request.
StoredFor(before, after, req) ==
    \E i \in CacheSlots :
        /\ after.cache[i] # before.cache[i]
        /\ after.cache[i].response # NullBlob
        /\ after.cache[i].vary_key =
              generate_vary_key(after.cache[i].path, AcceptEncoding(req))

HttpAccept ==
    /\ clients = <<>>
    /\ LET r == check_rate_limit(rate_limit_table, IP1, now, development_mode)
       IN  SetW(worker_handle_connection(
                  [W EXCEPT !.tbl = r.tbl], LowestFree(UsedFds(clients)),
                  IP1, TRUE, "ok", now))
    /\ dispatch' = 0
    /\ request' = NoRequest
    /\ response' = [status_code |-> 0]
    /\ reply' = "none"
    /\ wire' = <<>>
    /\ consulted' = {}
    /\ UNCHANGED <<now, development_mode, attempt, open_conns, path_vars,
                   cache_vars, origin, proc_vars>>

\* EPOLLIN with a whole request in the socket: worker_handle_client_data
\* parses it, has it handled and sends the response.
ParseError(ret) ==
    [http_create_response(
        IF ret = -2 THEN "413 Payload Too Large"
        ELSE IF ret = -3 THEN "505 HTTP Version Not Supported"
        ELSE "400 Bad Request") EXCEPT !.keep_alive = 0]

HttpRequest(text, send_result) ==
    /\ Len(clients) = 1
    /\ clients[1].events = "in"
    /\ clients[1].bytes_received + REQ_LEN <= HttpMaxBytes
    /\ \E req \in {http_parse_request(text)} :
       \E h \in {IF req.ret # 0
                 THEN [c |-> CacheC, consulted |-> {},
                       response |-> ParseError(req.ret)]
                 ELSE http_handle_request(CacheC, symlinks, root_dir, req,
                                          TRUE, now)} :
       \E sent \in {IF send_result = 1 THEN http_send_response(h.response)
                    ELSE <<>>} :
           /\ SetCache(h.c)
           /\ request' = text
           /\ response' = h.response
           /\ consulted' = h.consulted
           /\ wire' = sent
           /\ reply' = IF send_result = 1 THEN "sent"
                       ELSE IF send_result = 0 /\ req.ret = 0 THEN "pending"
                       ELSE "failed"
           /\ origin' = IF StoredFor(CacheC, h.c, req)
                        THEN IF send_result = 1 /\ text.method = "GET"
                             THEN [request |-> text, wire |-> sent]
                             ELSE NoOrigin
                        ELSE origin
           /\ SetW(worker_handle_client_data(
                     W, clients[1].fd,
                     [kind |-> "request", parse_ok |-> req.ret = 0,
                      keep_alive |-> h.response.keep_alive,
                      send_result |-> send_result, sys_ok |-> TRUE],
                     now))
    /\ dispatch' = 0
    /\ cache_op' = [op |-> "none"]
    /\ UNCHANGED <<now, development_mode, attempt, open_conns, path_vars,
                   proc_vars>>

\* EPOLLIN with BUFFER_SIZE - 1 bytes or more in the socket and no CRLFCRLF
\* among them: the read loop of worker_handle_client_data stops at the full
\* buffer, finds no request in it and returns.
HttpFill ==
    /\ Len(clients) = 1
    /\ clients[1].events = "in"
    /\ clients[1].bytes_received + BUFFER_SIZE - 1 <= HttpMaxBytes
    /\ SetW(worker_handle_client_data(
              W, clients[1].fd, [kind |-> "partial", n |-> BUFFER_SIZE - 1],
              now))
    /\ request' = Overlong
    /\ response' = [status_code |-> 0]
    /\ reply' = "none"
    /\ wire' = <<>>
    /\ consulted' = {}
    /\ dispatch' = 0
    /\ UNCHANGED <<now, development_mode, attempt, open_conns, path_vars,
                   cache_vars, origin, proc_vars>>

\* EPOLLOUT: worker_handle_client_write sends the pending response.
HttpWrite(send_result) ==
    /\ Len(clients) = 1
    /\ clients[1].events = "out"
    /\ SetW(worker_handle_client_write(W, clients[1].fd, send_result, TRUE,
                                       now))
    /\ wire' = IF send_result = 1 THEN http_send_response(response) ELSE wire
    /\ reply' = IF send_result = 1 THEN "sent"
                ELSE IF send_result = 0 THEN "pending" ELSE "failed"
    /\ dispatch' = 0
    /\ UNCHANGED <<now, development_mode, attempt, open_conns, path_vars,
                   cache_vars, request, response, consulted, origin,
                   proc_vars>>

\* The client closes the connection it holds open.
HttpHangup ==
    /\ Len(clients) = 1
    /\ SetW(worker_remove_client(W, clients[1].fd))
    /\ dispatch' = 0
    /\ UNCHANGED <<http_vars, proc_vars>>
    /\ UNCHANGED <<now, development_mode, attempt, open_conns, path_vars,
                   cache_vars>>

InitHttp ==
    /\ WorkerStart(TRUE)
    /\ PathStart(P_w, NullPath)
    /\ CacheStart
    /\ HttpStart
    /\ ProcIdle

NextHttp ==
    \/ HttpAccept
    \/ \E text \in HttpTexts, s \in {-1, 0, 1} : HttpRequest(text, s)
    \/ HttpFill
    \/ \E s \in {-1, 0, 1} : HttpWrite(s)
    \/ HttpHangup

SpecHttp == InitHttp /\ [][NextHttp]_vars

(***************************************************************************)
(* Claims about the request handler.                                       *)
(***************************************************************************)
Traversal(text) ==
    /\ text.method \in {"GET", "HEAD"}
    /\ \E i \in 1 .. (Len(text.uri) - 1) :
          text.uri[i] = "." /\ text.uri[i + 1] = "."

\* C3: a GET or HEAD whose URI contains ".." anywhere is answered with 403
\* and keep-alive off; neither the filesystem nor the cache is reached for
\* it; and once the reply has been written, or has failed, the connection
\* is closed.
C3_TraversalForbidden ==
    Traversal(request) =>
        /\ response.status_code = "403 Forbidden"
        /\ response.keep_alive = 0
        /\ consulted = {}
        /\ reply = "sent" =>
              /\ clients = <<>>
              /\ wire[1] = StatusLine("403 Forbidden")
              /\ HeaderPart(<<"Connection", "close">>) \in Range(wire)
        /\ reply = "failed" => clients = <<>>

\* A traversal in the middle of the URI was refused, the reply written
\* after a send that blocked first, and the connection closed.
C3_Witness ==
    /\ request.method = "GET"
    /\ request.uri = <<"/", "a", ".", ".">>
    /\ reply = "sent"
    /\ closed.how # "none"
    /\ clients = <<>>
    /\ response_cache = [i \in CacheSlots |-> EmptyCacheEntry]

\* C6: the parts a client receives on a cache hit are those of the 200
\* response that was sent when the identical request stored the entry.
C6_HitRepeatsOrigin ==
    (/\ reply = "sent"
     /\ response.status_code = "200 OK"
     /\ response.is_cached = 1
     /\ request = origin.request)
        => wire = origin.wire

\* The elements of the list the client wrote in If-None-Match, each
\* without the whitespace before it.
ListedTags(text) ==
    LET i == FindHeader(text.headers, "If-None-Match")
        tokens == IF i = 0 THEN <<>> ELSE Strtok(text.headers[i][2], ",")
    IN  {SkipSpace(tokens[k]) : k \in 1 .. Len(tokens)}

\* C7: a GET for an unchanged file with entity tag T that lists T, W/T or
\* * in If-None-Match is answered with 304 and no body, from the cache and
\* from the file alike.
C7_ListedTagGives304 ==
    (/\ request.method = "GET"
     /\ request.uri = INDEX
     /\ ListedTags(request) \cap {TagT, Weak(TagT), <<"*">>} # {}
     /\ reply = "sent")
        => /\ response.status_code = "304 Not Modified"
           /\ \A k \in 1 .. Len(wire) : wire[k][1] \notin {"file", "compressed"}

C16_BadVersionGives505 ==
    (/\ request.method \in {"GET", "HEAD"}
     /\ request.version \notin {"HTTP/1.0", "HTTP/1.1"})
        => /\ response.status_code = "505 HTTP Version Not Supported"
           /\ consulted = {}
           /\ reply \in {"sent", "failed"} => clients = <<>>
           /\ reply = "sent" =>
                 wire[1] = StatusLine("505 HTTP Version Not Supported")

\* C17: when the bytes read fill the buffer without a CRLFCRLF among them,
\* the worker answers 413 and closes the connection by the end of that
\* step: the connection is not left open with no reply.
C17_OverflowGives413 ==
    request = Overlong =>
        /\ clients = <<>>
        /\ reply \in {"sent", "failed"}
        /\ response.status_code = "413 Payload Too Large"

\* The keep-alive rules over the request as the client wrote it: HTTP/1.1
\* without a header Connection: close, or HTTP/1.0 with a header
\* Connection: keep-alive.
KeepAliveRule(text) ==
    \/ /\ text.version = "HTTP/1.1"
       /\ \A i \in 1 .. Len(text.headers) :
             text.headers[i] # <<"Connection", CLOSE>>
    \/ /\ text.version = "HTTP/1.0"
       /\ \E i \in 1 .. Len(text.headers) :
             text.headers[i] = <<"Connection", KEEP_ALIVE>>

\* C18: a GET or HEAD for a path under the root that does not exist is
\* answered with 404, and the response keeps the connection alive exactly
\* when the keep-alive rules say so; when they do not, the connection is
\* closed once the reply has been written.
C18_NotFoundFollowsKeepAlive ==
    (/\ request.method \in {"GET", "HEAD"}
     /\ request.uri = <<"/", "n">>
     /\ reply = "sent")
        => /\ response.status_code = "404 Not Found"
           /\ response.keep_alive = IF KeepAliveRule(request) THEN 1 ELSE 0
           /\ response.keep_alive = 0 => clients = <<>>

\* C19: for a response of 200 or 304 that has been written completely, at
\* once or after a suspension, the response keeps the connection alive
\* exactly when the keep-alive rules say so; a connection not kept alive is
\* closed, and one kept alive is, until the client hangs up, in the read
\* state.
C19_KeepAliveAfterSuccess ==
    (/\ request.method \in {"GET", "HEAD"}
     /\ reply = "sent"
     /\ response.status_code \in {"200 OK", "304 Not Modified"})
        => /\ response.keep_alive = IF KeepAliveRule(request) THEN 1 ELSE 0
           /\ response.keep_alive = 0 => clients = <<>>
           /\ (response.keep_alive = 1 /\ clients # <<>>)
                 => clients[1].events = "in"

\* The positions of the headers of the name among the parts written.
HeadersNamed(w, name) ==
    {k \in 1 .. Len(w) : w[k][1] = "header" /\ w[k][2] = name}

\* C20: every response that has been written holds a Server header, a
\* Content-Length header and exactly one Connection header, whose value
\* is keep-alive when the server keeps the connection and close when it
\* closes it; a response that keeps the connection alive holds a
\* Keep-Alive header as well.
C20_ResponseHeaders ==
    reply = "sent" =>
        /\ HeadersNamed(wire, "Server") # {}
        /\ HeadersNamed(wire, "Content-Length") # {}
        /\ Cardinality(HeadersNamed(wire, "Connection")) = 1
        /\ HeaderPart(<<"Connection",
                        IF response.keep_alive = 1 THEN "keep-alive"
                        ELSE "close">>) \in Range(wire)
        /\ response.keep_alive = 1 => HeadersNamed(wire, "Keep-Alive") # {}

\* The positions of the body parts among the parts written.
BodyParts(w) ==
    {k \in 1 .. Len(w) : w[k][1] \in {"file", "compressed"}}

\* C21: the reply written to a HEAD that is answered with 200 consists of
\* the status line and the headers, Content-Length among them, and the
\* empty line, and holds no part of a body, whether the response was made
\* from the file, with a compressed body, or from the cache.
C21_HeadHeadersNoBody ==
    (/\ request.method = "HEAD"
     /\ reply = "sent"
     /\ response.status_code = "200 OK")
        => /\ wire # <<>>
           /\ wire[1] = StatusLine("200 OK")
           /\ HeadersNamed(wire, "Content-Length") # {}
           /\ wire[Len(wire)] = EmptyLine
           /\ BodyParts(wire) = {}

\* C27: a file without an extension, or with one that the MIME table does
\* not list, is served with Content-Type application/octet-stream.
C27_UnknownTypeOctetStream ==
    (/\ request.method = "GET"
     /\ request.uri = <<"/", "a">>
     /\ reply = "sent"
     /\ response.status_code = "200 OK")
        => HeaderPart(<<"Content-Type", "application/octet-stream">>)
              \in Range(wire)

\* The three sources of a response's body.
body_in_memory(r) == r.body
body_from_file(r) == r.is_file = 1 /\ r.file_fd >= 0
body_from_cache(r) == r.is_cached = 1 /\ r.cached_response # NullBlob

ActiveSources(r) ==
    {k \in {"memory", "file", "cache"} :
        \/ k = "memory" /\ body_in_memory(r)
        \/ k = "file" /\ body_from_file(r)
        \/ k = "cache" /\ body_from_cache(r)}

\* C26: the response the handler returned has at most one of the three
\* body sources active, while it is sent and while it is suspended, and a
\* 200 response to a GET has exactly one.
C26_OneBodySource ==
    request.method \in {"GET", "HEAD", "POST"} =>
        /\ Cardinality(ActiveSources(response)) <= 1
        /\ (request.method = "GET" /\ response.status_code = "200 OK")
              => Cardinality(ActiveSources(response)) = 1

\* A compressed body, read into memory, is suspended on a send that would
\* block.
C26_Witness ==
    /\ request.method = "GET"
    /\ response.status_code = "200 OK"
    /\ ActiveSources(response) = {"memory"}
    /\ reply = "pending"

(***************************************************************************)
(* The supervisor: master_run and handle_child_signal (master.c) and the   *)
(* handler of SIGINT and SIGTERM (main.c).  A process is "alive", a        *)
(* "zombie" (it exited and was not waited for) or "reaped"; pids are never *)
(* used twice.  The record keeps, next to the program's own state, what    *)
(* the supervisor's log lines tell: the outcome of the last restart        *)
(* attempt of each slot, the number of restart attempts that failed in a   *)
(* row, and the signals sent with the state of their target.               *)
(***************************************************************************)
WORKER_COUNT == 2                  \* config->worker_count

MAX_HEALTH_CHECK_FAILURES == 5     \* max_health_check_failures

SHUTDOWN_TIMEOUT == 5              \* timeout, in seconds

MaxPid == 5                        \* the pids fork can hand out

WorkerSlots == 1..WORKER_COUNT

Pids == 1..MaxPid

\* fork(): the child's pid, or -1.
fork(m, ok) ==
    IF ok /\ m.next_pid <= MaxPid
    THEN [m   |-> [m EXCEPT !.procs[m.next_pid] = "alive",
                            !.next_pid = @ + 1],
          pid |-> m.next_pid]
    ELSE [m |-> m, pid |-> -1]

\* fork_worker: the argument checks pass for a slot of the table.
fork_worker(m, worker_id, ok) ==
    IF worker_id < 1 \/ worker_id > WORKER_COUNT
    THEN [m |-> m, pid |-> -1]
    ELSE fork(m, ok)

\* kill(pid, sig) == 0: the process exists, running or not yet waited for.
ProcessExists(m, pid) == m.procs[pid] \in {"alive", "zombie"}

\* The end of a restart attempt for slot i: worker_pids[i] = new_pid when
\* the fork succeeded, a line in the log either way.
Restarted(m, i, pid) ==
    IF pid > 0
    THEN [m EXCEPT !.worker_pids[i] = pid, !.last_fork[i] = "ok",
                   !.fail_run = 0]
    ELSE [m EXCEPT !.last_fork[i] = "failed",
                   !.fail_run = IF @ > MAX_HEALTH_CHECK_FAILURES
                                THEN @ ELSE @ + 1]

\* handle_child_signal: waitpid(-1, WNOHANG) until no child is left to wait
\* for; while is_running, the slot that held the pid is forked again.  The
\* next turn of a loop is written CHOOSE r \in {Turn(x) : x \in {state}} so
\* that the state it starts from is computed once.
RECURSIVE handle_child_signal(_, _)
handle_child_signal(m, oks) ==
    LET z == {p \in Pids : m.procs[p] = "zombie"}
    IN  IF z = {} THEN m
        ELSE LET pid == CHOOSE q \in z : \A r \in z : q <= r
                 m1  == [m EXCEPT !.procs[pid] = "reaped"]
                 s   == {i \in WorkerSlots : m.worker_pids[i] = pid}
             IN  IF m.is_running /\ s # {}
                 THEN LET i == CHOOSE j \in s : \A k \in s : j <= k
                          f == fork(m1, oks[i])
                      IN  CHOOSE r \in {handle_child_signal(x, oks) :
                                 x \in {Restarted(f.m, i, f.pid)}} : TRUE
                 ELSE CHOOSE r \in {handle_child_signal(x, oks) :
                                 x \in {m1}} : TRUE

\* A variant of HealthCheck that trusts the table.
HealthCheckKeeps(m) == m

\* master_run, the health check: a slot whose pid no longer answers
\* kill(pid, 0) is cleared.
HealthCheck(m) ==
    [m EXCEPT !.worker_pids =
        [i \in WorkerSlots |-> IF @[i] > 0 /\ ~ProcessExists(m, @[i])
                         THEN 0 ELSE @[i]]]

\* master_run, the restart loop from slot i on.
RECURSIVE RestartMissing(_, _, _)
RestartMissing(m, i, oks) ==
    IF i > WORKER_COUNT THEN m
    ELSE IF m.worker_pids[i] > 0 THEN RestartMissing(m, i + 1, oks)
    ELSE LET f  == fork_worker(m, i, oks[i])
             m1 == Restarted(f.m, i, f.pid)
         IN  IF f.pid > 0
             THEN CHOOSE r \in {RestartMissing(x, i + 1, oks) :
                      x \in {[m1 EXCEPT !.health_check_failures = 0]}} : TRUE
             ELSE LET m2 == [m1 EXCEPT !.health_check_failures = @ + 1]
                  IN  IF m2.health_check_failures
                            >= MAX_HEALTH_CHECK_FAILURES
                      THEN [m2 EXCEPT !.is_running = FALSE]
                      ELSE CHOOSE r \in {RestartMissing(x, i + 1, oks) :
                                            x \in {m2}} : TRUE

\* master_run before its loop: the table is empty and every slot is forked
\* once.
RECURSIVE StartWorkers(_, _, _)
StartWorkers(m, i, oks) ==
    IF i > WORKER_COUNT THEN m
    ELSE LET f == fork_worker(m, i, oks[i])
         IN  StartWorkers(IF f.pid > 0
                          THEN [f.m EXCEPT !.worker_pids[i] = f.pid]
                          ELSE f.m,
                          i + 1, oks)

\* master_init.
master_init ==
    [pc                    |-> "run",
     is_running            |-> TRUE,
     shutdown_requested    |-> FALSE,
     worker_pids           |-> [i \in WorkerSlots |-> 0],
     health_check_failures |-> 0,
     procs                 |-> [p \in Pids |-> "none"],
     next_pid              |-> 1,
     waited                |-> 0,
     slot                  |-> 1,
     waited_pid            |-> 0,
     termed                |-> {},
     killed                |-> {},
     last_fork             |-> [i \in WorkerSlots |-> "none"],
     fail_run              |-> 0]

\* A worker exits: by itself, by a fault, or because of a signal.
WorkerExit(pid) ==
    /\ master.pc \in {"run", "probe", "wait", "kill", "reap"}
    /\ master.procs[pid] = "alive"
    /\ master' = [master EXCEPT !.procs[pid] = "zombie"]
    /\ UNCHANGED <<now, worker_vars, path_vars, cache_vars, http_vars, conn>>

\* SIGCHLD is delivered.
ChildSignal(oks) ==
    /\ master.pc \in {"run", "probe", "wait", "kill", "reap"}
    /\ \E p \in Pids : master.procs[p] = "zombie"
    /\ master' = handle_child_signal(master, oks)
    /\ UNCHANGED <<now, worker_vars, path_vars, cache_vars, http_vars, conn>>

\* SIGINT or SIGTERM is delivered: handle_shutdown_signal.
ShutdownSignal ==
    /\ master.pc = "run"
    /\ ~master.shutdown_requested
    /\ master' = [master EXCEPT !.shutdown_requested = TRUE]
    /\ UNCHANGED <<now, worker_vars, path_vars, cache_vars, http_vars, conn>>

\* One turn of master_run's loop.
MasterLoop(oks) ==
    /\ master.pc = "run"
    /\ master.is_running /\ ~master.shutdown_requested
    /\ master' = RestartMissing(HealthCheck(master), 1, oks)
    /\ UNCHANGED <<now, worker_vars, path_vars, cache_vars, http_vars, conn>>

\* The loop ends: SIGTERM to every pid of the table.
MasterTerm ==
    /\ master.pc = "run"
    /\ ~(master.is_running /\ ~master.shutdown_requested)
    /\ master' = [master EXCEPT
           !.pc = "wait",
           !.waited = 0,
           !.termed = {master.worker_pids[i] :
                          i \in {j \in WorkerSlots : master.worker_pids[j] > 0}}]
    /\ UNCHANGED <<now, worker_vars, path_vars, cache_vars, http_vars, conn>>

\* waitpid(pid, &status, WNOHANG): 0 for a running child, the pid for one
\* that exited, -1 for a pid that was waited for already.
waitpid_nohang(m, pid) ==
    IF m.procs[pid] = "alive" THEN 0
    ELSE IF m.procs[pid] = "zombie" THEN pid ELSE -1

\* One turn of the loop that waits for the workers, or its end.
MasterWait ==
    /\ master.pc = "wait"
    /\ IF master.waited < SHUTDOWN_TIMEOUT
       THEN LET live == {i \in WorkerSlots : master.worker_pids[i] > 0}
                gone == {i \in live :
                           waitpid_nohang(master, master.worker_pids[i]) > 0}
                all_exited ==
                    \A i \in live :
                        waitpid_nohang(master, master.worker_pids[i]) # 0
            IN  master' = [master EXCEPT
                    !.procs = [p \in Pids |->
                        IF \E i \in gone : master.worker_pids[i] = p
                        THEN "reaped" ELSE @[p]],
                    !.worker_pids = [i \in WorkerSlots |->
                        IF i \in gone THEN 0 ELSE @[i]],
                    !.pc = IF all_exited THEN "kill" ELSE "wait",
                    !.slot = 1]
       ELSE master' = [master EXCEPT !.pc = "kill", !.slot = 1]
    /\ UNCHANGED <<now, worker_vars, path_vars, cache_vars, http_vars, conn>>

\* A second passes while the supervisor waits.
MasterClock ==
    /\ master.pc = "wait"
    /\ master.waited < SHUTDOWN_TIMEOUT
    /\ master' = [master EXCEPT !.waited = @ + 1]
    /\ UNCHANGED <<now, worker_vars, path_vars, cache_vars, http_vars, conn>>

\* The last loop at slot master.slot: SIGKILL to a pid still in the table,
\* then waitpid(pid, NULL, 0) when the signal was sent.
MasterKill ==
    /\ master.pc = "kill"
    /\ LET i == master.slot
       IN  IF i > WORKER_COUNT
           THEN master' = [master EXCEPT !.pc = "done"]
           ELSE IF master.worker_pids[i] > 0
           THEN LET pid == master.worker_pids[i]
                    was == master.procs[pid]
                IN  master' = [master EXCEPT
                        !.killed = @ \cup {[pid |-> pid, was |-> was]},
                        !.procs[pid] = IF was = "alive" THEN "zombie" ELSE @,
                        !.waited_pid = pid,
                        !.pc = IF ProcessExists(master, pid)
                               THEN "reap" ELSE "kill",
                        !.slot = IF ProcessExists(master, pid)
                                 THEN @ ELSE @ + 1]
           ELSE master' = [master EXCEPT !.slot = @ + 1]
    /\ UNCHANGED <<now, worker_vars, path_vars, cache_vars, http_vars, conn>>

\* waitpid(pid, NULL, 0) returns: the child was waited for, here or by the
\* SIGCHLD handler.
MasterReap ==
    /\ master.pc = "reap"
    /\ LET pid == master.waited_pid
       IN  /\ master.procs[pid] # "alive"
           /\ master' = [master EXCEPT !.procs[pid] = "reaped",
                                       !.pc = "kill",
                                       !.slot = @ + 1]
    /\ UNCHANGED <<now, worker_vars, path_vars, cache_vars, http_vars, conn>>

InitMaster ==
    /\ WorkerStart(FALSE)
    /\ PathStart(P_w, NullPath)
    /\ CacheStart
    /\ HttpStart
    /\ conn = NoConn
    /\ \E oks \in [WorkerSlots -> BOOLEAN] :
           master = StartWorkers(master_init, 1, oks)

NextMaster ==
    \/ \E pid \in Pids : WorkerExit(pid)
    \/ \E oks \in [WorkerSlots -> BOOLEAN] : ChildSignal(oks)
    \/ ShutdownSignal
    \/ \E oks \in [WorkerSlots -> BOOLEAN] : MasterLoop(oks)
    \/ MasterTerm
    \/ MasterWait
    \/ MasterClock
    \/ MasterKill
    \/ MasterReap

SpecMaster == InitMaster /\ [][NextMaster]_vars

\* The loop runs once a second and the kernel delivers SIGCHLD; a fork that
\* is tried again and again succeeds in the end.
AllForksSucceed == [i \in WorkerSlots |-> TRUE]

NextRestart ==
    \/ \E pid \in Pids : WorkerExit(pid)
    \/ \E oks \in [WorkerSlots -> BOOLEAN] : ChildSignal(oks)
    \/ ShutdownSignal
    \/ \E oks \in [WorkerSlots -> BOOLEAN] : MasterLoop(oks)
    \/ MasterTerm

SpecMasterFair ==
    /\ InitMaster
    /\ [][NextRestart]_vars
    /\ WF_vars(ChildSignal(AllForksSucceed))
    /\ WF_vars(MasterLoop(AllForksSucceed))

Supervising ==
    /\ master.pc = "run"
    /\ master.is_running
    /\ ~master.shutdown_requested

SlotExited(i) ==
    /\ master.worker_pids[i] > 0
    /\ master.procs[master.worker_pids[i]] # "alive"

SlotLive(i) ==
    /\ master.worker_pids[i] > 0
    /\ master.procs[master.worker_pids[i]] = "alive"

C24_TermWaitKillSurvivors ==
    /\ \A k \in master.killed : k.was = "alive" /\ k.pid \in master.termed
    /\ master.pc = "done" => \A p \in Pids : master.procs[p] # "alive"

\* C25: the supervisor has stopped itself exactly when five restart attempts
\* failed in a row.
C25_FiveFailuresStop ==
    /\ master.fail_run >= MAX_HEALTH_CHECK_FAILURES => ~master.is_running
    /\ ~master.is_running => master.fail_run >= MAX_HEALTH_CHECK_FAILURES

(***************************************************************************)
(* One connection as a byte stream: worker_handle_client_data and          *)
(* worker_handle_client_write (worker.c) over http_send_response (http.c). *)
(* A request is two pieces of bytes, <<r, "a">> and <<r, "b">>; the second *)
(* ends with CRLFCRLF.  A response is two pieces of status line and        *)
(* headers, <<r, "h", 1 .. 2>>, and for a 200 two pieces of body,          *)
(* <<r, "b", 1 .. 2>>.  The socket takes `room` pieces before a send       *)
(* returns EAGAIN.  The record keeps, next to the program's state, what    *)
(* the peer received and the order of the parses and completed responses.  *)
(***************************************************************************)
MaxReqs == 2                       \* requests the peer sends

MaxResumes == 2                    \* EPOLLOUT events of one connection

ReqIds == 1..MaxReqs

BodyKinds == {"file", "memory", "cached"}

HeaderBytes(r) == <<<<r, "h", 1>>, <<r, "h", 2>>>>

BodyBytes(r) == <<<<r, "b", 1>>, <<r, "b", 2>>>>

\* The bytes of a response on the wire.
WireBytes(resp) ==
    IF resp.kind = "headers" THEN HeaderBytes(resp.req)
    ELSE HeaderBytes(resp.req) \o BodyBytes(resp.req)

Rooms == 0..(2 * Len(HeaderBytes(1) \o BodyBytes(1)))

Least(a, b) == IF a < b THEN a ELSE b

\* http_send_response on a socket with room for `room` pieces.  A send that
\* took only part of its bytes leaves errno as it was: EAGAIN from the read
\* loop (errno_again) or something else.  ret is the value returned, out the
\* bytes the socket took, resp the response with its file_offset.
SendResponse(resp, room, errno_again) ==
    LET H == HeaderBytes(resp.req)
        B == BodyBytes(resp.req)
        h == Least(room, Len(H))
    IN  IF resp.kind = "cached"
        THEN LET n == Least(room, Len(H \o B))
             IN  [ret  |-> IF n = Len(H \o B) THEN 1 ELSE 0,
                  out  |-> SubSeq(H \o B, 1, n),
                  resp |-> resp]
        ELSE IF h < Len(H)
        THEN [ret  |-> IF h = 0 \/ errno_again THEN 0 ELSE -1,
              out  |-> SubSeq(H, 1, h),
              resp |-> resp]
        ELSE IF resp.kind = "file"
        THEN LET remaining == Len(B) - resp.file_offset
                 k == Least(room - h, remaining)
             IN  [ret  |-> IF k = remaining THEN 1 ELSE 0,
                  out  |-> H \o SubSeq(B, resp.file_offset + 1,
                                       resp.file_offset + k),
                  resp |-> [resp EXCEPT !.file_offset = @ + k]]
        ELSE IF resp.kind = "memory"
        THEN LET k == Least(room - h, Len(B))
             IN  [ret  |-> IF k = Len(B) THEN 1
                           ELSE IF k = 0 \/ errno_again THEN 0 ELSE -1,
                  out  |-> H \o SubSeq(B, 1, k),
                  resp |-> resp]
        ELSE [ret |-> 1, out |-> H, resp |-> resp]

\* http_handle_request for the bytes of a whole request r, and for bytes
\* that end with CRLFCRLF but are not a whole request.
ResponseFor(c, r, whole) ==
    IF whole
    THEN [req |-> r, kind |-> c.kind, file_offset |-> 0,
          keep_alive |-> TRUE]
    ELSE [req |-> r, kind |-> "headers", file_offset |-> 0,
          keep_alive |-> FALSE]

ConnClosed(c) == [c EXCEPT !.state = "closed", !.has_pending_response = FALSE]

\* A variant of Readable: the socket stays registered for EPOLLIN while a
\* response is pending.
ReadableWhilePending(c) == c.state = "open" /\ c.sock # <<>>

\* worker_run hands the socket to worker_handle_client_data: it is
\* registered for EPOLLIN and bytes have arrived.
Readable(c) == c.state = "open" /\ c.events = "in" /\ c.sock # <<>>

\* worker_handle_client_data, the read loop: recv writes from the start of
\* client->buffer.
ReadLoop(c) ==
    [c EXCEPT !.head_before = c.kept,
              !.buffer = c.sock,
              !.sock = <<>>,
              !.complete = @ \cup
                  {r \in ReqIds :
                      \E i \in 1..(Len(c.sock) - 1) :
                          /\ c.sock[i] = <<r, "a">>
                          /\ c.sock[i + 1] = <<r, "b">>}]

\* worker_handle_client_data, the loop over the requests in the buffer from
\* offset on.
RECURSIVE ScanRequests(_, _, _, _, _)
ScanRequests(c, offset, room, errno_again, frag_ok) ==
    LET total == Len(c.buffer)
        ends  == {e \in (offset + 1)..total : c.buffer[e][2] = "b"}
    IN  IF offset >= total THEN [c EXCEPT !.kept = <<>>]
        ELSE IF ends = {}
        THEN [c EXCEPT !.kept = SubSeq(c.buffer, offset + 1, total)]
        ELSE LET end   == CHOOSE e \in ends : \A f \in ends : e <= f
                 r     == c.buffer[end][1]
                 whole == /\ end = offset + 2
                          /\ c.buffer[offset + 1] = <<r, "a">>
                 resp  == ResponseFor(c, r, whole)
                 s     == SendResponse(resp, room, errno_again)
                 c1    == [c EXCEPT
                              !.log = Append(@, <<"parse", r,
                                  IF whole THEN "whole" ELSE "part">>),
                              !.received = @ \o s.out,
                              !.keep_alive = resp.keep_alive]
             IN  IF ~whole /\ ~frag_ok THEN ConnClosed(c1)
                 ELSE IF s.ret = -1 THEN ConnClosed(c1)
                 ELSE IF s.ret = 0
                 THEN [c1 EXCEPT !.events = "out",
                                 !.pending_response = s.resp,
                                 !.has_pending_response = TRUE,
                                 !.kept = <<>>]
                 ELSE IF ~resp.keep_alive
                 THEN ConnClosed([c1 EXCEPT !.log = Append(@, <<"done", r>>)])
                 ELSE CHOOSE n \in
                          {ScanRequests(x, end, room - Len(s.out),
                                        errno_again, frag_ok) :
                              x \in {[c1 EXCEPT
                                        !.log = Append(@, <<"done", r>>)]}} :
                          TRUE

\* A variant of HandleClientWrite that leaves the socket registered for
\* EPOLLOUT when the pending response is sent.
HandleClientWriteStaysOut(c, room, errno_again) ==
    IF ~c.has_pending_response THEN c
    ELSE LET s  == SendResponse(c.pending_response, room, errno_again)
             c1 == [c EXCEPT !.received = @ \o s.out,
                             !.pending_response = s.resp]
         IN  IF s.ret = -1 THEN ConnClosed(c1)
             ELSE IF s.ret = 0 THEN c1
             ELSE LET c2 == [c1 EXCEPT
                                !.has_pending_response = FALSE,
                                !.log = Append(@, <<"done",
                                               c.pending_response.req>>)]
                  IN  IF ~c.keep_alive THEN ConnClosed(c2) ELSE c2

\* worker_handle_client_write.
HandleClientWrite(c, room, errno_again) ==
    IF ~c.has_pending_response THEN [c EXCEPT !.events = "in"]
    ELSE LET s  == SendResponse(c.pending_response, room, errno_again)
             c1 == [c EXCEPT !.received = @ \o s.out,
                             !.pending_response = s.resp]
         IN  IF s.ret = -1 THEN ConnClosed(c1)
             ELSE IF s.ret = 0 THEN c1
             ELSE LET c2 == [c1 EXCEPT
                                !.has_pending_response = FALSE,
                                !.log = Append(@, <<"done",
                                               c.pending_response.req>>)]
                  IN  IF ~c.keep_alive THEN ConnClosed(c2)
                      ELSE [c2 EXCEPT !.events = "in"]

\* The connection after worker_handle_connection, and the n requests its
\* peer is going to send, each for a body of the same kind.
ConnStart(n, kind) ==
    [state                |-> "open",
     kind                 |-> kind,
     unsent               |-> [i \in 1..(2 * n) |->
                                  <<(i + 1) \div 2,
                                    IF i % 2 = 1 THEN "a" ELSE "b">>],
     sock                 |-> <<>>,
     buffer               |-> <<>>,
     kept                 |-> <<>>,
     head_before          |-> <<>>,
     complete             |-> {},
     events               |-> "in",
     keep_alive           |-> TRUE,
     has_pending_response |-> FALSE,
     pending_response     |-> [req |-> 0, kind |-> "headers",
                               file_offset |-> 0, keep_alive |-> FALSE],
     received             |-> <<>>,
     log                  |-> <<>>,
     resumes              |-> 0]

\* Bytes of the peer reach the socket.
PeerSend(n) ==
    /\ conn.state = "open"
    /\ n \in 1..Len(conn.unsent)
    /\ conn' = [conn EXCEPT !.sock = @ \o SubSeq(conn.unsent, 1, n),
                            !.unsent = SubSeq(@, n + 1, Len(@))]
    /\ UNCHANGED <<now, worker_vars, path_vars, cache_vars, http_vars, master>>

\* EPOLLIN.
ConnData(room, errno_again, frag_ok) ==
    /\ Readable(conn)
    /\ conn' = ScanRequests(ReadLoop(conn), 0, room, errno_again, frag_ok)
    /\ UNCHANGED <<now, worker_vars, path_vars, cache_vars, http_vars, master>>

\* EPOLLOUT.
ConnWrite(room, errno_again) ==
    /\ conn.state = "open"
    /\ conn.events = "out"
    /\ conn.resumes < MaxResumes
    /\ room > 0
    /\ conn' = [HandleClientWrite(conn, room, errno_again)
                    EXCEPT !.resumes = @ + 1]
    /\ UNCHANGED <<now, worker_vars, path_vars, cache_vars, http_vars, master>>

InitConn ==
    /\ WorkerStart(FALSE)
    /\ PathStart(P_w, NullPath)
    /\ CacheStart
    /\ HttpStart
    /\ master = NoMaster
    /\ \E n \in ReqIds, kind \in BodyKinds : conn = ConnStart(n, kind)

NextConn ==
    \/ \E n \in 1..(2 * MaxReqs) : PeerSend(n)
    \/ \E room \in Rooms, errno_again \in BOOLEAN, frag_ok \in BOOLEAN :
           ConnData(room, errno_again, frag_ok)
    \/ \E room \in Rooms, errno_again \in BOOLEAN :
           ConnWrite(room, errno_again)

SpecConn == InitConn /\ [][NextConn]_vars

Parsed(r) == \E i \in 1..Len(conn.log) :
                 conn.log[i][1] = "parse" /\ conn.log[i][2] = r

Completed(r) == <<"done", r>> \in Range(conn.log)

\* The response made for request r as the log tells it.
LoggedResponse(r) ==
    ResponseFor(conn, r, <<"parse", r, "whole">> \in Range(conn.log))

\* The bytes of the response to r among those the peer received.
ReceivedFor(r) ==
    LET OfR(u) == u[1] = r
    IN  SelectSeq(conn.received, OfR)

\* C22: on one connection a request is parsed only when the response to the
\* request parsed before it was written to its last byte, requests are
\* parsed in the order of the byte stream, and the peer receives the
\* responses in that order.
C22_ResponsesInRequestOrder ==
    /\ \A i \in 1..Len(conn.log) :
           /\ (conn.log[i][1] = "parse" /\ i > 1)
                  => /\ conn.log[i - 1][1] = "done"
                     /\ conn.log[i - 1][2] < conn.log[i][2]
                     /\ Range(WireBytes(LoggedResponse(conn.log[i - 1][2])))
                            \subseteq Range(conn.received)
           /\ conn.log[i][1] = "done"
                  => /\ i > 1
                     /\ conn.log[i - 1][1] = "parse"
                     /\ conn.log[i - 1][2] = conn.log[i][2]
    /\ \A i, j \in 1..Len(conn.received) :
           i < j => conn.received[i][1] <= conn.received[j][1]

C22_Witness ==
    /\ conn.log = <<<<"parse", 1, "whole">>, <<"done", 1>>,
                    <<"parse", 2, "whole">>, <<"done", 2>>>>
    /\ conn.resumes > 0

\* C28: the peer receives the bytes of a completed response once and in
\* order, however often the response was suspended and resumed.
C28_ResumedBytesOnce ==
    \A r \in ReqIds :
        Completed(r) => ReceivedFor(r) = WireBytes(LoggedResponse(r))

\* C29: what was kept at the head of the buffer is the start of what the
\* next read event scans, and no request is parsed from a part of its
\* bytes.
C29_SplitRequestAccumulated ==
    /\ \A i \in 1..Len(conn.head_before) :
           i <= Len(conn.buffer) /\ conn.buffer[i] = conn.head_before[i]
    /\ \A i \in 1..Len(conn.log) :
           conn.log[i][1] = "parse" => conn.log[i][3] = "whole"

\* C30: on a connection that is open, has no response pending and no bytes
\* to read, every whole request that was read has its response.
C30_PipelinedNotDropped ==
    (/\ conn.state = "open"
     /\ conn.events = "in"
     /\ ~conn.has_pending_response
     /\ conn.sock = <<>>)
        => \A r \in conn.complete : Completed(r)

\* C31: between events an open connection holds a pending response exactly
\* when its socket is registered for EPOLLOUT; without one it is registered
\* for EPOLLIN (each with EPOLLET and EPOLLRDHUP).
C31_PendingIffWriteRegistered ==
    conn.state = "open" =>
        /\ conn.has_pending_response <=> conn.events = "out"
        /\ ~conn.has_pending_response <=> conn.events = "in"

\* A response is still pending after a resume that blocked again.
C31_Witness ==
    /\ conn.state = "open"
    /\ conn.has_pending_response
    /\ conn.events = "out"
    /\ conn.resumes > 0

\* C36: once the supervisor has received SIGINT or SIGTERM no step forks a
\* worker: the set of processes ever created stays as it is.
C36_NoForkAfterShutdown ==
    [][(master.pc # "off" /\ master.shutdown_requested)
        => master'.next_pid = master.next_pid]_vars

-----------------------------------------------------------------------------
\* The health check of master_run taken one slot at a time, so that SIGCHLD
\* can be handled between reading worker_pids[i] and the call of kill with it.
\* master.slot is the loop's i and master.waited_pid the pid it read.

\* The health check reads worker_pids[i]; after the last slot the restart
\* loop runs and the next turn starts.
HealthLoad(oks) ==
    /\ master.pc = "run"
    /\ master.is_running /\ ~master.shutdown_requested
    /\ LET i == master.slot
       IN  IF i > WORKER_COUNT
           THEN \E r \in {RestartMissing(master, 1, oks)} :
                    master' = [r EXCEPT !.slot = 1]
           ELSE IF master.worker_pids[i] > 0
           THEN master' = [master EXCEPT
                               !.pc = "probe",
                               !.waited_pid = master.worker_pids[i]]
           ELSE master' = [master EXCEPT !.slot = @ + 1]
    /\ UNCHANGED <<now, worker_vars, path_vars, cache_vars, http_vars, conn>>

\* kill(pid, 0) with the pid that was read: the slot is cleared when the
\* process does not exist.
HealthProbe ==
    /\ master.pc = "probe"
    /\ master' = [master EXCEPT
           !.worker_pids[master.slot] =
               IF ProcessExists(master, master.waited_pid) THEN @ ELSE 0,
           !.pc = "run",
           !.slot = @ + 1]
    /\ UNCHANGED <<now, worker_vars, path_vars, cache_vars, http_vars, conn>>

NextHealth ==
    \/ \E pid \in Pids : WorkerExit(pid)
    \/ \E oks \in [WorkerSlots -> BOOLEAN] : ChildSignal(oks)
    \/ \E oks \in [WorkerSlots -> BOOLEAN] : HealthLoad(oks)
    \/ HealthProbe

SpecHealth == InitMaster /\ [][NextHealth]_vars

\* C37: however the SIGCHLD handler and the loop interleave, every running
\* worker's pid is held by a slot of worker_pids (so a slot has one running
\* worker at most and SIGTERM reaches every worker at shutdown).
C37_LiveWorkersRecorded ==
    master.pc # "off" =>
        \A p \in Pids :
            master.procs[p] = "alive" =>
                \E i \in WorkerSlots : master.worker_pids[i] = p

-----------------------------------------------------------------------------
\* C35: an admission check that denies the connection (address banned, too
\* many concurrent connections, window threshold exceeded) leaves the
\* entry's connection_count as it was.
C35_DenialKeepsConnectionCount ==
    [][(attempt'.seq # attempt.seq /\ attempt'.ret = 0)
        => rate_limit_table'[hash_ip(attempt'.ip)].connection_count
             = rate_limit_table[hash_ip(attempt'.ip)].connection_count]_vars

\* C40: an entry that is not under an active ban (none was set, or it has
\* run out) and whose last request is more than four windows old is
\* removed by a sweep made now.
C40_IdleEntrySwept ==
    \A h \in Slots :
        LET e == rate_limit_table[h]
        IN  (/\ e.ip # NO_IP
             /\ e.ban_until = 0 \/ now >= e.ban_until
             /\ (now - e.last_request) > RATE_LIMIT_WINDOW * 4)
            => cleanup_rate_limit_table(rate_limit_table, now)[h] = EmptyEntry

-----------------------------------------------------------------------------
\* The rate limiter under connections of one address alone, with a client
\* table that has room for them all (its size is far above the cap on the
\* connections of one address).

\* The accept loop for a connection whose set-up succeeds.
CapAccept(ip) ==
    /\ open_conns[ip] < MaxOpen
    /\ rate_limit_table[hash_ip(ip)].request_count < MaxCount
    /\ LET r == check_rate_limit(rate_limit_table, ip, now, development_mode)
       IN  /\ rate_limit_table' = r.tbl
           /\ attempt' = [ip |-> ip, ret |-> r.ret, seq |-> 1 - attempt.seq,
                          ban_found |-> rate_limit_table[hash_ip(ip)].ban_until]
           /\ open_conns' = IF r.ret = 1
                            THEN [open_conns EXCEPT ![ip] = @ + 1]
                            ELSE open_conns
    /\ UNCHANGED <<http_vars, proc_vars>>
    /\ UNCHANGED <<now, development_mode, clients, closed, dispatch,
                   path_vars, cache_vars>>

NextCap ==
    \/ \E ip \in WorkerIPs : CapAccept(ip)
    \/ \E ip \in WorkerIPs : RateClose(ip)
    \/ Sweep
    \/ RateTick

SpecCap == InitWorker /\ [][NextCap]_vars

\* C34: in production mode, with no other address in its slot, the
\* connections an address holds open at one time never exceed
\* MAX_CONCURRENT_CONNECTIONS_PER_IP.
C34_OpenWithinCap ==
    ~development_mode =>
        \A ip \in WorkerIPs :
            open_conns[ip] <= MAX_CONCURRENT_CONNECTIONS_PER_IP

-----------------------------------------------------------------------------
\* http_free_response: the descriptor is closed when the response is marked
\* as a file; the bodies in memory are freed and the borrowed blob let go.
http_free_response(r) ==
    [r EXCEPT !.file_fd = IF r.is_file = 1 /\ r.file_fd # -1 THEN -1 ELSE @,
              !.is_file = IF r.is_file = 1 /\ r.file_fd # -1 THEN 0 ELSE @,
              !.body = FALSE,
              !.compressed_body = FALSE,
              !.is_cached = 0,
              !.cached_response = NullBlob]

\* C33: once the worker is done with a response, sent or failed, the
\* descriptor opened to serve it is closed: releasing the response leaves no
\* descriptor in it.
C33_DescriptorClosedOnRelease ==
    reply \in {"sent", "failed"} =>
        http_free_response(response).file_fd = -1

-----------------------------------------------------------------------------
\* The request of the last exchange as the parser hands it to the handler.
LastRequest == http_parse_request(request)

\* The path the handler serves for the last request.
LastPath == IF request.uri = <<"/">> THEN INDEX ELSE request.uri

\* C38: a 304 response, whichever path of the handler produced it, carries
\* the ETag of the resource and the Cache-Control value that a 200 for a
\* file of that extension carries.
C38_NotModifiedHeaders ==
    (/\ reply \in {"sent", "pending", "failed"}
     /\ response.status_code = "304 Not Modified")
        => /\ \E i \in 1 .. Len(response.headers) :
                  response.headers[i] = <<"ETag", ETagOf(P_w \o LastPath)>>
           /\ ExtOf(LastPath) # <<>> =>
                  \E i \in 1 .. Len(response.headers) :
                      response.headers[i] =
                          <<"Cache-Control", CacheControl(ExtOf(LastPath))>>

\* C39: the status of the answer to a request, 200 or 304, is the one the
\* handler gives to the same request when nothing is cached.
C39_SameStatusCachedOrNot ==
    (/\ reply \in {"sent", "pending", "failed"}
     /\ response.status_code \in {"200 OK", "304 Not Modified"})
        => response.status_code =
              http_handle_request(
                  [cache |-> [i \in CacheSlots |-> EmptyCacheEntry],
                   index |-> 0,
                   stats |-> [total_memory_used |-> 0,
                              last_cleanup_time |-> 0]],
                  symlinks, root_dir, LastRequest, TRUE, now
              ).response.status_code

-----------------------------------------------------------------------------
\* A response served from the cache and suspended, while the worker handles
\* the requests of its other connections.  conn.borrowed is the slot whose
\* blob the pending response points to (cached_response is the entry's
\* pointer, not a copy), conn.freed whether free was called for that blob
\* since.

\* free(entry->response) was called for the blob of slot i between the two
\* caches: the entry was purged or written anew.
BlobFreed(before, after, i) ==
    /\ before.cache[i].response # NullBlob
    /\ after.cache[i] # before.cache[i]

\* A request is answered from the cache and its send would block: the
\* worker keeps the response, cached_response pointing into the entry.
BorrowHit(path, ae) ==
    /\ conn.state \in {"idle", "released"}
    /\ \E r \in {find_cached_response(CacheC, path, ae, now)} :
          /\ r.hit >= 0
          /\ SetCache(r.c)
          /\ cache_op' = [op |-> "find", path |-> path,
                          key |-> generate_vary_key(path, ae), hit |-> r.hit]
          /\ conn' = [state |-> "suspended", borrowed |-> r.hit,
                      freed |-> FALSE]
    /\ UNCHANGED <<now, worker_vars, path_vars, http_vars, master>>

\* The request of another connection: the handler looks the key up and, on
\* a miss, serves the file and stores the response.
OtherRequest(path, ae, n, malloc_ok) ==
    /\ \E r \in {find_cached_response(CacheC, path, ae, now)} :
       \E c \in {IF r.hit >= 0 THEN r.c
                 ELSE cache_response(r.c, path, Blob(n), n, ae, ETAG,
                                     malloc_ok, now)} :
          /\ SetCache(c)
          /\ cache_op' = [op |-> "find", path |-> path,
                          key |-> generate_vary_key(path, ae), hit |-> r.hit]
          /\ conn' = IF /\ conn.state = "suspended"
                        /\ BlobFreed(CacheC, c, conn.borrowed)
                     THEN [conn EXCEPT !.freed = TRUE]
                     ELSE conn
    /\ UNCHANGED <<now, worker_vars, path_vars, http_vars, master>>

\* EPOLLOUT: http_send_response sends from cached_response, completes, and
\* http_free_response lets the pointer go.
BorrowResume ==
    /\ conn.state = "suspended"
    /\ conn' = [conn EXCEPT !.state = "released"]
    /\ UNCHANGED <<now, worker_vars, path_vars, cache_vars, http_vars,
                   master>>

InitBorrow ==
    /\ WorkerStart(FALSE)
    /\ PathStart(P_w, NullPath)
    /\ CacheStart
    /\ HttpStart
    /\ master = NoMaster
    /\ conn = [state |-> "idle", borrowed |-> -1, freed |-> FALSE]

NextBorrow ==
    \/ \E r \in CacheRequests : BorrowHit(r[1], r[2])
    \/ \E r \in CacheRequests, n \in 1 .. MaxBlobLen, ok \in BOOLEAN :
          OtherRequest(r[1], r[2], n, ok)
    \/ BorrowResume
    \/ CacheTick

SpecBorrow == InitBorrow /\ [][NextBorrow]_vars

\* C32: the blob a suspended response points to is not freed, by an insert
\* or by the purge of expired entries made for another connection's request,
\* before the response has been resumed and released.
C32_BorrowedBlobNotFreed ==
    conn.state \in {"suspended", "released"} => ~conn.freed

=============================================================================
